---- MODULE Spec2Model ----
(***************************************************************************)
(* Dataset acquisition engine of the QGIS LINZ downloader plugin.          *)
(*                                                                         *)
(*   core/downloader.py   DownloadTask (a QgsTask), DownloadManager        *)
(*   providers/linz.py    LINZProvider.download and its transfer           *)
(*                        strategies (WCS direct stream, export job)       *)
(*   core/models.py       Dataset, DownloadResult                          *)
(*   gui/main_dialog.py   the batch callbacks of the dialog                *)
(*                                                                         *)
(* Python strings are TLA+ strings (\o, Len and SubSeq act on them), so    *)
(* the messages the code formats and the substring tests it makes on them  *)
(* are computed, not abstracted.                                           *)
(***************************************************************************)
EXTENDS Integers, Sequences, FiniteSets, TLC

(***************************************************************************)
(* Bounds of the model.                                                    *)
(***************************************************************************)
\* largest number of datasets selected for one batch
MaxDatasets == 2

\* largest number of layers a listing holds
MaxLayers == 2

\* largest number of polls whose progress reports are followed
MaxAttempts == 101

\* the half seconds that pass while the reports of a download are followed
MaxTicks == 2

\* the number of iterations of a polling loop that are counted
MaxPolls == 3

\* largest number of tasks started through one DownloadManager
MaxTasks == 2

\* largest number of cancel_all calls in a row
MaxCancelAlls == 2

(***************************************************************************)
(* Python values.                                                          *)
(***************************************************************************)
\* None of an Optional[str] field
None == "<None>"
\* None of DownloadTask.result (Optional[DownloadResult])
NoResult == [none |-> TRUE]

Range(f) == {f[i] : i \in DOMAIN f}

(***************************************************************************)
(* str methods used by the code.                                           *)
(***************************************************************************)
UpperToLower ==
    ("A" :> "a") @@ ("B" :> "b") @@ ("C" :> "c") @@ ("D" :> "d") @@
    ("E" :> "e") @@ ("F" :> "f") @@ ("G" :> "g") @@ ("H" :> "h") @@
    ("I" :> "i") @@ ("J" :> "j") @@ ("K" :> "k") @@ ("L" :> "l") @@
    ("M" :> "m") @@ ("N" :> "n") @@ ("O" :> "o") @@ ("P" :> "p") @@
    ("Q" :> "q") @@ ("R" :> "r") @@ ("S" :> "s") @@ ("T" :> "t") @@
    ("U" :> "u") @@ ("V" :> "v") @@ ("W" :> "w") @@ ("X" :> "x") @@
    ("Y" :> "y") @@ ("Z" :> "z")

\* s[i] of a non-empty index, as a one-character string
CharAt(s, i) == SubSeq(s, i, i)

\* s.lower(): every character mapped, the string split in halves
RECURSIVE Lower(_)
Lower(s) ==
    IF Len(s) = 0 THEN ""
    ELSE IF Len(s) = 1
    THEN (IF s \in DOMAIN UpperToLower THEN UpperToLower[s] ELSE s)
    ELSE LET half == Len(s) \div 2
         IN  Lower(SubSeq(s, 1, half)) \o Lower(SubSeq(s, half + 1, Len(s)))

\* needle in hay
Contains(needle, hay) ==
    \E i \in 1..(Len(hay) - Len(needle) + 1) :
        SubSeq(hay, i, i + Len(needle) - 1) = needle

\* s.endswith(suffix)
EndsWith(s, suffix) ==
    /\ Len(s) >= Len(suffix)
    /\ SubSeq(s, Len(s) - Len(suffix) + 1, Len(s)) = suffix

\* s.replace(old, new) for a one-character old: every character
\* mapped, the string split in halves
RECURSIVE Replace(_, _, _)
Replace(s, old, new) ==
    IF Len(s) = 0 THEN ""
    ELSE IF Len(s) = 1
    THEN (IF s = old THEN new ELSE s)
    ELSE LET half == Len(s) \div 2
         IN  Replace(SubSeq(s, 1, half), old, new)
                 \o Replace(SubSeq(s, half + 1, Len(s)), old, new)

\* s[:n]
Prefix(s, n) == SubSeq(s, 1, IF Len(s) < n THEN Len(s) ELSE n)

\* sep.join(items)
RECURSIVE Join(_, _)
Join(sep, items) ==
    IF Len(items) = 0 THEN ""
    ELSE IF Len(items) = 1 THEN items[1]
    ELSE items[1] \o sep \o Join(sep, Tail(items))

(***************************************************************************)
(* core/models.py                                                          *)
(***************************************************************************)
RASTER == "raster"
VECTOR == "vector"

DOMAIN_LINZ == "data.linz.govt.nz"

\* Datasets as search produces them.  portal_only is the metadata flag
\* _search_single_domain sets in show-all mode on a layer without
\* confirmed coverage.
Dataset(layer_id, name, data_type, portal_only) ==
    [id |-> DOMAIN_LINZ \o ":" \o layer_id, name |-> name, data_type |-> data_type,
     crs |-> "EPSG:2193", domain |-> DOMAIN_LINZ, layer_id |-> layer_id,
     portal_only |-> portal_only]

DatasetDEM     == Dataset("51768", "NZ 8m DEM (2012)", RASTER, FALSE)
DatasetTopo    == Dataset("50767", "NZ Topo50 Maps", RASTER, FALSE)
DatasetParcels == Dataset("50772", "NZ Primary Parcels", VECTOR, FALSE)
DatasetAerial  == Dataset("53519", "[No Coverage] Aerial/Photos 2019", RASTER, TRUE)

\* the datasets of the tree the user selects a batch from
Catalog == <<DatasetDEM, DatasetParcels, DatasetAerial>>

\* the batch of the three-dataset example: A, B and the portal-only C
ExampleBatch == <<DatasetDEM, DatasetTopo, DatasetAerial>>

Datasets == Range(Catalog) \cup Range(ExampleBatch)

\* the fields of the DownloadResult dataclass
DownloadResultFields ==
    {"dataset", "output_path", "success", "error_message", "warning_message", "clipped"}

\* a DownloadResult that takes any keyword, already_clipped included
AcceptsAnyKwargs(kwargs) == TRUE

\* DownloadResult(**kwargs) accepts exactly the dataclass's fields
AcceptsKwargs(kwargs) == DOMAIN kwargs \subseteq DownloadResultFields

\* the dataclass instance built from accepted keyword arguments, the
\* omitted optional fields at their defaults
DownloadResult(kwargs) ==
    [dataset         |-> kwargs.dataset,
     output_path     |-> kwargs.output_path,
     success         |-> kwargs.success,
     error_message   |-> IF "error_message" \in DOMAIN kwargs
                         THEN kwargs.error_message ELSE None,
     warning_message |-> IF "warning_message" \in DOMAIN kwargs
                         THEN kwargs.warning_message ELSE None,
     clipped         |-> IF "clipped" \in DOMAIN kwargs
                         THEN kwargs.clipped ELSE FALSE]

\* str(e) of the TypeError raised for a keyword the dataclass does not have
UnexpectedKeywordText(kwargs) ==
    "DownloadResult.__init__() got an unexpected keyword argument '"
        \o (CHOOSE k \in (DOMAIN kwargs) \ DownloadResultFields : TRUE) \o "'"

\* the failed result every error branch of the provider builds
Failed(dataset, output_dir, message) ==
    DownloadResult([dataset |-> dataset.id, output_path |-> output_dir,
                    success |-> FALSE, error_message |-> message])

(***************************************************************************)
(* providers/linz.py: what the remote portal may answer.                   *)
(***************************************************************************)
\* str(e) of the requests.HTTPError raise_for_status raises
HTTPErrorText(status_code) ==
    ToString(status_code) \o (IF status_code < 500 THEN " Client Error" ELSE " Server Error")

\* str(e) of a connection failure
ConnectionErrorText == "Connection aborted"

\* Answers to the WCS GetCoverage request.  raises names the exception
\* requests.get raised ("" when it returned); reports tells whether the
\* stream reaches a progress report (content-length known); stream_raises
\* names the exception raised while the body streams.
WcsAnswer(raises, status_code, xml, text, reports, stream_raises) ==
    [raises |-> raises, status |-> status_code, xml |-> xml, text |-> text,
     reports |-> reports, stream_raises |-> stream_raises]

WcsResponses ==
    { WcsAnswer("ConnectionError", 0, FALSE, ConnectionErrorText, FALSE, ""),
      WcsAnswer("", 404, FALSE, "Not Found", FALSE, ""),
      WcsAnswer("", 401, FALSE, "Unauthorized", FALSE, ""),
      WcsAnswer("", 200, TRUE, "<ServiceExceptionReport>bbox</ServiceExceptionReport>", FALSE, ""),
      WcsAnswer("", 200, TRUE, "<xml>tiff</xml>", TRUE, ""),
      WcsAnswer("", 200, FALSE, "", TRUE, ""),
      WcsAnswer("", 200, FALSE, "", FALSE, "") }

\* Answers to the POST that submits an export job.
SubmitAnswer(raises, exc_text, status_code, body, has_json, items, id) ==
    [raises |-> raises, exc_text |-> exc_text, status |-> status_code, body |-> body,
     has_json |-> has_json, items |-> items, id |-> id]

SubmitRejections ==
    { SubmitAnswer("ConnectionError", "Connection refused", 0, "", FALSE, <<>>, ""),
      SubmitAnswer("", "", 401, "Invalid API key", FALSE, <<>>, ""),
      SubmitAnswer("", "", 403, "Forbidden", FALSE, <<>>, ""),
      SubmitAnswer("", "", 400, "Bad Request", FALSE, <<>>, ""),
      SubmitAnswer("", "", 400, "{}", TRUE,
                   <<[invalid_reasons |-> <<>>]>>, ""),
      SubmitAnswer("", "", 400, "{}", TRUE,
                   <<[invalid_reasons |-> <<"outside-extent">>]>>, ""),
      SubmitAnswer("", "", 400, "{}", TRUE,
                   <<[invalid_reasons |-> <<"too-large", "not-permitted">>]>>, ""),
      SubmitAnswer("", "", 201, "{}", TRUE, <<>>, "") }

SubmitCreated == SubmitAnswer("", "", 201, "{}", TRUE, <<>>, "4711")

SubmitResponses == SubmitRejections \cup {SubmitCreated}

\* Answers to one poll of the job status.  has_error tells whether the
\* JSON carries an "error" key.
PollAnswer(status_code, state, has_error, error, download_url) ==
    [status |-> status_code, state |-> state, has_error |-> has_error,
     error |-> error, download_url |-> download_url]

\* Answers to the GET of the result archive and what the archive holds.
FetchAnswer(raises, status_code, reports, stream_raises) ==
    [raises |-> raises, status |-> status_code, reports |-> reports,
     stream_raises |-> stream_raises]

FetchResponses ==
    { FetchAnswer("", 200, TRUE, ""),
      FetchAnswer("", 200, FALSE, ""),
      FetchAnswer("", 404, FALSE, ""),
      FetchAnswer("ConnectionError", 0, FALSE, "") }

\* the archive: readable as a zip or not, and its member names in order
Archives ==
    { [is_zip |-> TRUE,  members |-> <<"readme.txt", "DEM.TIF", "dem.tif">>],
      [is_zip |-> TRUE,  members |-> <<"parcels.gpkg">>],
      [is_zip |-> TRUE,  members |-> <<"readme.txt">>],
      [is_zip |-> FALSE, members |-> <<>>] }

\* what the reprojection step leaves of the extracted raster: "kept" (not
\* reprojected, or reprojection failed before the unlink), "replaced"
\* (renamed over the original), "lost" (unlinked, every rename failed)
Reprojections == {"kept", "replaced", "lost"}

PollProcessing == PollAnswer(200, "processing", FALSE, "", "")
PollNoUrl      == PollAnswer(200, "complete", FALSE, "", "")
PollComplete   ==
    PollAnswer(200, "complete", FALSE, "", "https://data.linz.govt.nz/x/4711/download/")

\* the answers the polls of one export attempt get, in order
PollSequences ==
    { <<PollComplete>>,
      <<PollProcessing, PollComplete>>,
      <<PollNoUrl, PollComplete>>,
      <<PollAnswer(200, "error", TRUE, "Extent too large", "")>>,
      <<PollProcessing, PollAnswer(200, "cancelled", FALSE, "", "")>>,
      <<PollAnswer(200, "failed", FALSE, "", "")>>,
      <<PollAnswer(500, "", FALSE, "", "")>>,
      <<PollProcessing, PollNoUrl>> }

\* What the remote answers during one export attempt.  The parts of an
\* attempt that a rejected submission or a job without result makes
\* irrelevant are fixed instead of enumerated.
ExportEnvs ==
    LET no_fetch == FetchAnswer("", 200, FALSE, "")
        no_arch  == [is_zip |-> FALSE, members |-> <<>>]
        got_url(p) == \E i \in DOMAIN p : p[i].download_url # ""
    IN  { [submit |-> s, polls |-> <<>>, fetch |-> no_fetch,
           archive |-> no_arch, reproject |-> "kept"] : s \in SubmitRejections }
        \cup
        { [submit |-> SubmitCreated, polls |-> p, fetch |-> no_fetch,
           archive |-> no_arch, reproject |-> "kept"] :
              p \in {q \in PollSequences : ~got_url(q)} }
        \cup
        { [submit |-> SubmitCreated, polls |-> p, fetch |-> f,
           archive |-> no_arch, reproject |-> "kept"] :
              p \in {q \in PollSequences : got_url(q)},
              f \in {g \in FetchResponses : g.raises # "" \/ g.status >= 400} }
        \cup
        { [submit |-> SubmitCreated, polls |-> p, fetch |-> f,
           archive |-> a, reproject |-> r] :
              p \in {q \in PollSequences : got_url(q)},
              f \in {g \in FetchResponses : g.raises = "" /\ g.status < 400},
              a \in Archives, r \in Reprojections }

(***************************************************************************)
(* providers/linz.py: the transfer strategies, as functions of what the    *)
(* remote answers (env) and of what the progress callback returns (cb).    *)
(***************************************************************************)
\* the values a progress callback can return
CallbackReturns == {"None", "True", "False"}

\* the places a strategy invokes the progress callback at: each iteration
\* of the polling loop, the 60% report after the loop, each chunk written,
\* the 100% report before the result is returned
CallbackPoints == {"poll", "after_poll", "chunk", "final"}

\* progress_callback(...) == False, for a callback cb that gives its
\* return value by the place it is invoked at
SignalsCancel(cb, point) == cb[point] = "False"

\* safe_name of LINZProvider.download
SafeName(name) ==
    Replace(Replace(Replace(Replace(name, " ", "_"), "/", "-"), "(", ""), ")", "")

\* output_dir / name
PathJoin(dir, name) == dir \o "/" \o name

\* LINZProvider._try_wcs_download
try_wcs_download(dataset, output_dir, resp, cb) ==
    LET output_path == PathJoin(output_dir, SafeName(dataset.name) \o ".tif")
        error_text  == Prefix(resp.text, 1000)
    IN  IF resp.raises # ""
        THEN Failed(dataset, output_dir,
                    "WCS exception: " \o resp.raises \o ": " \o resp.text)
        ELSE IF resp.status = 404
        THEN Failed(dataset, output_dir, "WCS 404 - layer not available via WCS")
        ELSE IF resp.status >= 400
        THEN Failed(dataset, output_dir,
                    "WCS exception: HTTPError: " \o HTTPErrorText(resp.status))
        ELSE IF /\ resp.xml
                /\ \/ Contains("exception", Lower(error_text))
                   \/ Contains("error", Lower(error_text))
        THEN Failed(dataset, output_dir, "WCS XML error: " \o Prefix(error_text, 200))
        ELSE IF resp.reports /\ SignalsCancel(cb, "chunk")
        THEN Failed(dataset, output_dir, "WCS exception: Exception: Download cancelled")
        ELSE IF resp.stream_raises # ""
        THEN Failed(dataset, output_dir,
                    "WCS exception: " \o resp.stream_raises \o ": " \o ConnectionErrorText)
        ELSE DownloadResult([dataset |-> dataset.id, output_path |-> output_path,
                             success |-> TRUE])

\* the user_message loop over the items of a rejected submission
RECURSIVE UserMessage(_, _)
UserMessage(items, message) ==
    IF Len(items) = 0 THEN message
    ELSE LET reasons == Head(items).invalid_reasons
         IN  UserMessage(Tail(items),
                 IF "outside-extent" \in Range(reasons)
                 THEN "Selected area is outside this dataset's coverage"
                 ELSE IF Len(reasons) > 0
                 THEN "Export validation failed: " \o Join(", ", reasons)
                 ELSE message)

\* the message of a submission answered with status >= 400
RejectionMessage(submit) ==
    UserMessage(IF submit.has_json THEN submit.items ELSE <<>>,
                "Export error (" \o ToString(submit.status) \o ")")

\* The polling loop, from poll number attempt on.  It yields
\*   [kind |-> "cancelled"]           the callback signalled cancel
\*   [kind |-> "http_error", status]  raise_for_status raised
\*   [kind |-> "complete", url]       state complete with a download_url
\*   [kind |-> "failed", error]       state error, cancelled or failed
\*   [kind |-> "polling"]             the answers seen so far end none of these
RECURSIVE PollLoop(_, _, _)
PollLoop(polls, attempt, cb) ==
    IF attempt > Len(polls) THEN [kind |-> "polling"]
    ELSE LET info == polls[attempt]
         IN  IF SignalsCancel(cb, "poll") THEN [kind |-> "cancelled"]
             ELSE IF info.status >= 400
             THEN [kind |-> "http_error", status |-> info.status]
             ELSE IF info.state = "complete" /\ info.download_url # ""
             THEN [kind |-> "complete", url |-> info.download_url]
             ELSE IF info.state \in {"error", "cancelled", "failed"}
             THEN [kind |-> "failed",
                   error |-> IF info.has_error THEN info.error ELSE info.state]
             ELSE PollLoop(polls, attempt + 1, cb)

\* the export attempt leaves the polling loop
PollsTerminate(env, cb) ==
    \/ env.submit \in SubmitRejections
    \/ PollLoop(env.polls, 1, cb).kind # "polling"

RasterExtensions ==
    {".tif", ".tiff", ".asc", ".img", ".dem", ".hgt", ".bil", ".flt", ".nc", ".grd"}

VectorExtensions == {".gpkg", ".geojson", ".json", ".shp", ".gml", ".kml"}

\* the first member of the archive, in archive order, with one of the
\* extensions; "" when there is none
RECURSIVE FirstMember(_, _)
FirstMember(members, extensions) ==
    IF Len(members) = 0 THEN ""
    ELSE IF \E e \in extensions : EndsWith(Lower(Head(members)), e)
    THEN Head(members)
    ELSE FirstMember(Tail(members), extensions)

\* LINZProvider._try_export_download
try_export_download(dataset, output_dir, env, cb) ==
    LET submit      == env.submit
        output_path == PathJoin(output_dir, SafeName(dataset.name) \o ".zip")
        poll        == PollLoop(env.polls, 1, cb)
        member      == IF env.archive.is_zip
                       THEN FirstMember(env.archive.members, RasterExtensions)
                       ELSE ""
        extracted   == member # "" /\ env.reproject # "lost"
        final_path  == IF extracted THEN PathJoin(output_dir, member) ELSE output_path
        kwargs      == [dataset |-> dataset.id, output_path |-> final_path,
                        success |-> TRUE, already_clipped |-> TRUE]
    IN  IF submit.raises # ""
        THEN Failed(dataset, output_dir,
                    "Export request failed: "
                        \o (IF submit.exc_text # "" THEN submit.exc_text
                            ELSE "Network error"))
        ELSE IF submit.status \in {401, 403}
        THEN Failed(dataset, output_dir,
                    "Export auth (" \o ToString(submit.status) \o "): "
                        \o Prefix(submit.body, 300))
        ELSE IF submit.status >= 400
        THEN Failed(dataset, output_dir, RejectionMessage(submit))
        ELSE IF submit.id = ""
        THEN Failed(dataset, output_dir, "Failed to create export job - no ID returned")
        ELSE IF poll.kind = "cancelled"
        THEN Failed(dataset, output_dir, "Download cancelled")
        ELSE IF poll.kind = "http_error"
        THEN Failed(dataset, output_dir,
                    "Export HTTP error: " \o HTTPErrorText(poll.status))
        ELSE IF poll.kind = "failed"
        THEN Failed(dataset, output_dir, "Export failed: " \o poll.error)
        ELSE IF env.fetch.raises # ""
        THEN Failed(dataset, output_dir,
                    "Export exception: " \o env.fetch.raises \o ": " \o ConnectionErrorText)
        ELSE IF env.fetch.status >= 400
        THEN Failed(dataset, output_dir,
                    "Export HTTP error: " \o HTTPErrorText(env.fetch.status))
        ELSE IF env.fetch.reports /\ SignalsCancel(cb, "chunk")
        THEN Failed(dataset, output_dir,
                    "Export exception: Exception: Download cancelled")
        ELSE IF env.fetch.stream_raises # ""
        THEN Failed(dataset, output_dir,
                    "Export exception: " \o env.fetch.stream_raises \o ": "
                        \o ConnectionErrorText)
        ELSE IF AcceptsKwargs(kwargs)
        THEN DownloadResult(kwargs)
        ELSE Failed(dataset, output_dir,
                    "Export exception: TypeError: " \o UnexpectedKeywordText(kwargs))

\* LINZProvider._try_vector_export_download
try_vector_export_download(dataset, output_dir, env, cb) ==
    LET submit      == env.submit
        poll        == PollLoop(env.polls, 1, cb)
        member      == FirstMember(env.archive.members, VectorExtensions)
        kwargs      == [dataset |-> dataset.id,
                        output_path |-> PathJoin(output_dir, member),
                        success |-> TRUE, already_clipped |-> TRUE]
    IN  IF submit.raises # ""
        THEN Failed(dataset, output_dir, submit.exc_text)
        ELSE IF submit.status >= 400
        THEN Failed(dataset, output_dir, RejectionMessage(submit))
        ELSE IF submit.id = ""
        THEN Failed(dataset, output_dir, "Failed to create export job")
        ELSE IF poll.kind = "cancelled"
        THEN Failed(dataset, output_dir, "Download cancelled")
        ELSE IF poll.kind = "http_error"
        THEN Failed(dataset, output_dir, HTTPErrorText(poll.status))
        ELSE IF poll.kind = "failed"
        THEN Failed(dataset, output_dir, "Export failed: " \o poll.error)
        ELSE IF env.fetch.raises # ""
        THEN Failed(dataset, output_dir, ConnectionErrorText)
        ELSE IF env.fetch.status >= 400
        THEN Failed(dataset, output_dir, HTTPErrorText(env.fetch.status))
        ELSE IF env.fetch.reports /\ SignalsCancel(cb, "chunk")
        THEN Failed(dataset, output_dir, "Download cancelled")
        ELSE IF env.fetch.stream_raises # ""
        THEN Failed(dataset, output_dir, ConnectionErrorText)
        ELSE IF ~env.archive.is_zip
        THEN Failed(dataset, output_dir,
                    "Failed to extract vector file: File is not a zip file")
        ELSE IF member = ""
        THEN Failed(dataset, output_dir, "No vector file found in export")
        ELSE IF AcceptsKwargs(kwargs)
        THEN DownloadResult(kwargs)
        ELSE Failed(dataset, output_dir, UnexpectedKeywordText(kwargs))

\* a _download_raster that reports the export attempt's reason only
export_error_only(wcs, export_result) == export_result.error_message

\* the error message _download_raster builds when both strategies failed
download_raster_error(wcs, export_result) ==
    LET final_error == export_result.error_message
    IN  IF \/ Contains("outside", Lower(final_error))
           \/ Contains("coverage", Lower(final_error))
        THEN export_result.error_message
        ELSE "WCS: " \o wcs.error_message
                 \o " | Export: " \o export_result.error_message

\* a _download_raster that goes on to the export attempt whatever the WCS
\* attempt returned
NeverSettles(wcs) == FALSE

\* _download_raster decides after the WCS attempt: return its result, or
\* go on to the export attempt
WcsSettles(wcs) == wcs.success

\* what _download_raster returns once the export attempt has returned
download_raster_return(dataset, output_dir, wcs, export_result) ==
    IF export_result.success
    THEN export_result
    ELSE Failed(dataset, output_dir, download_raster_error(wcs, export_result))

\* what _download_vector returns once the export attempt has returned
download_vector_return(dataset, output_dir, export_result) ==
    IF export_result.success
    THEN export_result
    ELSE Failed(dataset, output_dir,
                "Export API failed: " \o export_result.error_message)

CoverageMessage ==
    "No data coverage in selected area. Try a different location or dataset."

\* a download that does not look at the portal_only flag
NeverPortalOnly(dataset) == FALSE

\* dataset.metadata.get("portal_only")
IsPortalOnly(dataset) == dataset.portal_only

\* LINZProvider.download up to the first strategy: the result it returns
\* without attempting a transfer, or NoResult when it goes on to one
download_precheck(dataset, output_dir, key) ==
    IF IsPortalOnly(dataset)
    THEN Failed(dataset, output_dir, CoverageMessage)
    ELSE IF key = ""
    THEN Failed(dataset, output_dir, "API key required for " \o dataset.domain)
    ELSE NoResult

\* the first strategy LINZProvider.download hands the dataset to
FirstStrategy(dataset) ==
    IF dataset.data_type = RASTER THEN "wcs" ELSE "vector_export"

(***************************************************************************)
(* core/clipper.py                                                         *)
(***************************************************************************)
\* index of the last "." of a path, 0 when there is none
RECURSIVE LastDot(_, _)
LastDot(path, i) ==
    IF i = 0 THEN 0
    ELSE IF CharAt(path, i) = "." THEN i
    ELSE IF CharAt(path, i) = "/" THEN 0
    ELSE LastDot(path, i - 1)

\* input_path.with_name(f"{input_path.stem}_clipped{suffix}")
ClippedPath(input_path) ==
    LET dot == LastDot(input_path, Len(input_path))
    IN  IF dot = 0 THEN input_path \o "_clipped"
        ELSE SubSeq(input_path, 1, dot - 1) \o "_clipped"
                 \o SubSeq(input_path, dot, Len(input_path))

(***************************************************************************)
(* core/downloader.py: the state of one DownloadManager and its tasks.     *)
(* Task t downloads datasets[t].                                           *)
(***************************************************************************)
VARIABLES
    api_key,          \* the key APIKeyManager.get_api_key returns ("" when not set)
    clip_geometry,    \* DownloadManager.clip_geometry is set
    datasets,         \* the dataset of each task; in a run that only calls
                      \* download_multiple, the datasets list passed to it
    active_tasks,     \* DownloadManager.active_tasks
    batch,            \* the tasks download_multiple created
    last_call,        \* the latest call made on the manager; for a cancel_all
                      \* the tasks it called cancel() on and the number of
                      \* cancel_all calls in a row it is the last of
    status,           \* QgsTask status of each task
    cancel_requested, \* each task's cancellation flag (QgsTask.isCanceled)
    pc,               \* the call of run() each running task is blocked in
    wcs_result,       \* wcs_result of each task's _download_raster
    result,           \* DownloadTask.result
    attempts,         \* the strategy calls of each task's run, in call order
    finished_called,  \* DownloadTask.finished has run for the task
    results,          \* results of download_multiple
    completed_count,  \* completed_count[0] of download_multiple
    dataset_complete, \* the tasks on_dataset_complete was invoked for, in order
    all_complete,     \* the result lists on_all_complete was invoked with
    tally,            \* the (succeeded, failed) pairs _on_all_complete logged
    strategy_run,     \* a call of one transfer strategy, followed step by step
    search_run,       \* a call of _search_single_domain, followed step by step
    progress_run      \* the progress reports of one download on their way from
                      \* the strategy to the labels of the progress widget

task_vars == <<status, cancel_requested, pc, wcs_result, result, attempts,
               finished_called>>

\* what the calls of the provider that are followed step by step work on
provider_vars == <<strategy_run, search_run, progress_run>>

vars == <<api_key, clip_geometry, datasets, active_tasks, status, cancel_requested,
          pc, wcs_result, result, attempts, finished_called, results,
          completed_count, dataset_complete, all_complete, tally, batch, last_call,
          provider_vars>>

manager_vars == <<api_key, clip_geometry, datasets, active_tasks, batch, last_call>>
batch_vars == <<results, completed_count, dataset_complete, all_complete, tally>>

\* DownloadManager.output_dir
OutputDir == "/data/out"

Tasks == DOMAIN status

\* DownloadTask.run.progress_callback has no return statement
TaskCallbackReturn == "None"

\* the callback run() hands to provider.download
TaskCallback == [point \in CallbackPoints |-> TaskCallbackReturn]

(***************************************************************************)
(* What the strategies return to a task's run, tabulated over the          *)
(* datasets and the remote's answers.                                      *)
(***************************************************************************)
\* self._try_wcs_download(...) as _download_raster calls it
WcsResultOf ==
    [d \in Datasets, resp \in WcsResponses |->
        try_wcs_download(d, OutputDir, resp, TaskCallback)]

\* self._try_export_download(...) as _download_raster calls it
ExportResultOf ==
    [d \in Datasets, env \in ExportEnvs |->
        try_export_download(d, OutputDir, env, TaskCallback)]

\* self._try_vector_export_download(...) as _download_vector calls it
VectorExportResultOf ==
    [d \in Datasets, env \in ExportEnvs |->
        try_vector_export_download(d, OutputDir, env, TaskCallback)]

\* the results the WCS attempts return
WcsResults == Range(WcsResultOf)

\* the error message of _download_raster, by the error messages of the
\* two failed attempts
RasterErrorOf ==
    [w \in {x.error_message : x \in WcsResults},
     e \in {x.error_message : x \in Range(ExportResultOf)} |->
        download_raster_error([error_message |-> w], [error_message |-> e])]

\* _download_raster after the export attempt returned export_result
RasterReturn(dataset, wcs, export_result) ==
    IF export_result.success
    THEN export_result
    ELSE Failed(dataset, OutputDir,
                RasterErrorOf[wcs.error_message, export_result.error_message])

\* what _download_vector returns after the export attempt
VectorReturnOf ==
    [d \in Datasets, env \in ExportEnvs |->
        download_vector_return(d, OutputDir, VectorExportResultOf[d, env])]

\* the output paths of the successful downloads
DownloadedPaths ==
    { r.output_path : r \in { x \in WcsResults \cup Range(ExportResultOf)
                                       \cup Range(VectorExportResultOf) : x.success } }

\* the output path Clipper.clip returns for each of them
ClippedPathOf == [path \in DownloadedPaths |-> ClippedPath(path)]

(***************************************************************************)
(* The record of one strategy call: the strategy, the kind of answer the   *)
(* remote gave, and the outcome the strategy returned.                     *)
(***************************************************************************)
\* the statuses that reject the credential
AuthStatuses == {401, 403}

\* the kind of answer the WCS endpoint gave
WcsAnswerKind(resp) ==
    IF resp.raises # "" THEN "error"
    ELSE IF resp.status \in AuthStatuses THEN "auth"
    ELSE IF resp.status = 404 THEN "not_found"
    ELSE IF resp.status >= 400 THEN "error"
    ELSE IF resp.stream_raises # "" THEN "error"
    ELSE "ok"

\* the submission was rejected with structured validation reasons
HasValidationReasons(submit) ==
    /\ submit.raises = ""
    /\ submit.status >= 400
    /\ submit.has_json
    /\ \E i \in DOMAIN submit.items : Len(submit.items[i].invalid_reasons) > 0

\* the export job ran without any failure: created, completed, fetched,
\* and the archive holds a member with one of the extensions
ExportRanClean(env, extensions) ==
    /\ env.submit = SubmitCreated
    /\ PollLoop(env.polls, 1, TaskCallback).kind = "complete"
    /\ env.fetch.raises = "" /\ env.fetch.status < 400 /\ env.fetch.stream_raises = ""
    /\ env.archive.is_zip
    /\ FirstMember(env.archive.members, extensions) # ""
    /\ env.reproject # "lost"

\* the kind of answer the export service gave
ExportAnswerKind(env, extensions) ==
    IF env.submit.raises = "" /\ env.submit.status \in AuthStatuses THEN "auth"
    ELSE IF HasValidationReasons(env.submit) THEN "validation"
    ELSE IF ExportRanClean(env, extensions) THEN "ok"
    ELSE "error"

Attempt(strategy, answer, outcome) ==
    [strategy |-> strategy, answer |-> answer, success |-> outcome.success,
     error_message |-> outcome.error_message]

WcsAttemptOf ==
    [d \in Datasets, resp \in WcsResponses |->
        Attempt("wcs", WcsAnswerKind(resp), WcsResultOf[d, resp])]

ExportAttemptOf ==
    [d \in Datasets, env \in ExportEnvs |->
        Attempt("export", ExportAnswerKind(env, RasterExtensions), ExportResultOf[d, env])]

VectorExportAttemptOf ==
    [d \in Datasets, env \in ExportEnvs |->
        Attempt("vector_export", ExportAnswerKind(env, VectorExtensions),
                VectorExportResultOf[d, env])]

\* the export attempts that leave the polling loop
TerminatingEnvs == {env \in ExportEnvs : PollsTerminate(env, TaskCallback)}

(***************************************************************************)
(* The operations.                                                         *)
(***************************************************************************)
\* no download was started
NoDownloads ==
    /\ datasets = <<>>
    /\ active_tasks = <<>>
    /\ batch = <<>>
    /\ last_call = [op |-> "none"]
    /\ status = <<>>
    /\ cancel_requested = <<>>
    /\ pc = <<>>
    /\ wcs_result = <<>>
    /\ result = <<>>
    /\ attempts = <<>>
    /\ finished_called = <<>>
    /\ results = <<>>
    /\ completed_count = 0
    /\ dataset_complete = <<>>
    /\ all_complete = <<>>
    /\ tally = <<>>

\* no strategy call is followed
NoRun == [pc |-> "none"]

\* DownloadManager.__init__, before any download was started
Init ==
    /\ api_key \in {"", "0123abcd"}
    /\ clip_geometry \in BOOLEAN
    /\ NoDownloads
    /\ strategy_run = NoRun
    /\ search_run = NoRun
    /\ progress_run = NoRun

\* the selection of the catalog entries in sel, in catalog order
RECURSIVE Selection(_, _)
Selection(sel, i) ==
    IF i > Len(Catalog) THEN <<>>
    ELSE (IF i \in sel THEN <<Catalog[i]>> ELSE <<>>) \o Selection(sel, i + 1)

\* the tasks that download() creates for the datasets of selected, in order
NewTasks(selected) == [i \in 1..Len(selected) |-> Len(datasets) + i]

\* a download() that keeps only the tasks of the latest call
OnlyLatest(tasks, new) == new

\* self.active_tasks.append(task), for each of the new tasks
Tracked(tasks, new) == tasks \o new

\* DownloadManager.download for each dataset of selected: a task is
\* created, appended to active_tasks and queued on the task manager
StartTasks(selected) ==
    LET n == Len(selected)
    IN  /\ datasets' = datasets \o selected
        /\ active_tasks' = Tracked(active_tasks, NewTasks(selected))
        /\ status' = status \o [i \in 1..n |-> "Queued"]
        /\ cancel_requested' = cancel_requested \o [i \in 1..n |-> FALSE]
        /\ pc' = pc \o [i \in 1..n |-> ""]
        /\ wcs_result' = wcs_result \o [i \in 1..n |-> NoResult]
        /\ result' = result \o [i \in 1..n |-> NoResult]
        /\ attempts' = attempts \o [i \in 1..n |-> <<>>]
        /\ finished_called' = finished_called \o [i \in 1..n |-> FALSE]

\* DownloadManager.download_multiple, each download() it makes included;
\* one call of it is followed in a run
StartBatch(selected) ==
    /\ batch = <<>>
    /\ StartTasks(selected)
    /\ batch' = NewTasks(selected)
    /\ last_call' = [op |-> "download_multiple"]
    /\ results' = <<>>
    /\ completed_count' = 0
    /\ UNCHANGED <<api_key, clip_geometry, dataset_complete, all_complete, tally,
                   provider_vars>>

\* the user starts the download of the datasets selected in the tree
DownloadMultiple ==
    \E sel \in SUBSET (1..Len(Catalog)) :
        /\ Cardinality(sel) \in 1..MaxDatasets
        /\ StartBatch(Selection(sel, 1))

\* a run() that goes on to the clip step whatever the download returned
ClipsWhateverResult(t, r) ==
    IF clip_geometry
    THEN /\ pc' = [pc EXCEPT ![t] = "clip"]
         /\ UNCHANGED status
    ELSE /\ pc' = [pc EXCEPT ![t] = ""]
         /\ status' = [status EXCEPT ![t] = IF r.success THEN "Complete" ELSE "Terminated"]

\* run() after provider.download returned r: the clip step comes next, or
\* run returns r.success and the task ends
AfterDownload(t, r) ==
    IF r.success /\ clip_geometry
    THEN /\ pc' = [pc EXCEPT ![t] = "clip"]
         /\ UNCHANGED status
    ELSE /\ pc' = [pc EXCEPT ![t] = ""]
         /\ status' = [status EXCEPT ![t] = IF r.success THEN "Complete" ELSE "Terminated"]

\* a task manager that starts a task once the tasks added before it ended
StartableInOrder(t) ==
    status[t] = "Queued" /\ \A u \in 1..(t - 1) : finished_called[u]

\* QgsApplication.taskManager().addTask(task): the task is added without
\* dependencies; while it is queued the task manager may start it,
\* whatever the other tasks do
Startable(t) == status[t] = "Queued"

\* The task manager starts a queued task: run() calls on_file_start and
\* provider.download, which returns at once for a portal-only dataset or a
\* missing key and else computes the bounding box (which raises when the
\* geometry cannot be transformed) and calls the first strategy.
RunStart(t, bbox_raises) ==
    LET early == download_precheck(datasets[t], OutputDir, api_key)
    IN  /\ Startable(t)
        /\ IF early # NoResult
           THEN /\ result' = [result EXCEPT ![t] = early]
                /\ status' = [status EXCEPT ![t] = "Terminated"]
                /\ UNCHANGED pc
           ELSE IF bbox_raises
           THEN /\ status' = [status EXCEPT ![t] = "Terminated"]
                /\ UNCHANGED <<result, pc>>
           ELSE /\ status' = [status EXCEPT ![t] = "Running"]
                /\ pc' = [pc EXCEPT ![t] = FirstStrategy(datasets[t])]
                /\ UNCHANGED result
        /\ UNCHANGED <<manager_vars, batch_vars, cancel_requested, wcs_result,
                       attempts, finished_called, provider_vars>>

\* _download_raster: the WCS attempt
TryWcsDownload(t, resp) ==
    LET r == WcsResultOf[datasets[t], resp]
    IN  /\ status[t] = "Running"
        /\ pc[t] = "wcs"
        /\ attempts' = [attempts EXCEPT ![t] =
               Append(@, WcsAttemptOf[datasets[t], resp])]
        /\ IF WcsSettles(r)
           THEN /\ result' = [result EXCEPT ![t] = r]
                /\ AfterDownload(t, r)
                /\ UNCHANGED wcs_result
           ELSE /\ wcs_result' = [wcs_result EXCEPT ![t] = r]
                /\ pc' = [pc EXCEPT ![t] = "export"]
                /\ UNCHANGED <<result, status>>
        /\ UNCHANGED <<manager_vars, batch_vars, cancel_requested, finished_called,
                       provider_vars>>

\* _download_raster: the export attempt, through to the return of download
TryExportDownload(t, env) ==
    LET r == RasterReturn(datasets[t], wcs_result[t], ExportResultOf[datasets[t], env])
    IN  /\ status[t] = "Running"
        /\ pc[t] = "export"
        /\ env \in TerminatingEnvs
        /\ attempts' = [attempts EXCEPT ![t] =
               Append(@, ExportAttemptOf[datasets[t], env])]
        /\ result' = [result EXCEPT ![t] = r]
        /\ wcs_result' = [wcs_result EXCEPT ![t] = NoResult]
        /\ AfterDownload(t, r)
        /\ UNCHANGED <<manager_vars, batch_vars, cancel_requested, finished_called,
                       provider_vars>>

\* _download_vector: the export attempt, through to the return of download
TryVectorExportDownload(t, env) ==
    LET r == VectorReturnOf[datasets[t], env]
    IN  /\ status[t] = "Running"
        /\ pc[t] = "vector_export"
        /\ env \in TerminatingEnvs
        /\ attempts' = [attempts EXCEPT ![t] =
               Append(@, VectorExportAttemptOf[datasets[t], env])]
        /\ result' = [result EXCEPT ![t] = r]
        /\ AfterDownload(t, r)
        /\ UNCHANGED <<manager_vars, batch_vars, cancel_requested, wcs_result,
                       finished_called, provider_vars>>

\* run(): the clip step of a successful download, through to the return
Clip(t, clip_raises) ==
    /\ status[t] = "Running"
    /\ pc[t] = "clip"
    /\ result' = [result EXCEPT ![t] =
          IF clip_raises
          THEN [@ EXCEPT !.error_message =
                            "Clip failed: Invalid raster: " \o result[t].output_path]
          ELSE [@ EXCEPT !.output_path = ClippedPathOf[result[t].output_path],
                         !.clipped = TRUE]]
    /\ pc' = [pc EXCEPT ![t] = ""]
    /\ status' = [status EXCEPT ![t] = "Complete"]
    /\ UNCHANGED <<manager_vars, batch_vars, cancel_requested, wcs_result,
                   attempts, finished_called, provider_vars>>

\* a finished() that calls on_complete whether there is a result or not
DeliversAlways(task_result) == TRUE

\* DownloadTask.finished: "if self.on_complete and self.result"
Delivers(task_result) == task_result # NoResult

\* a handle_complete that compares with "<=" instead of "=="
CompleteOnEach(count, n) == count <= n

\* handle_complete: "completed_count[0] == len(datasets)"
BatchComplete(count, n) == count = n

\* _on_all_complete: (succeeded, failed) of a result list
Tally(result_list) ==
    LET success == Cardinality({i \in DOMAIN result_list : result_list[i].success})
    IN  <<success, Len(result_list) - success>>

\* an increment that is lost when another completion has read the counter
\* at the same value
LostUpdate(count) == IF count = 0 THEN 1 ELSE count

\* handle_complete: "completed_count[0] += 1"; finished() is only ever
\* called on the main thread, so no other completion runs in between
Incremented(count) == count + 1

\* DownloadTask.finished, called on the main thread once the task has
\* ended; with a result it runs handle_complete of download_multiple, which
\* calls on_dataset_complete and, on the last completion, on_all_complete
Finished(t) ==
    /\ status[t] \in {"Complete", "Terminated"}
    /\ ~finished_called[t]
    /\ finished_called' = [finished_called EXCEPT ![t] = TRUE]
    /\ IF t \in Range(batch) /\ Delivers(result[t])
       THEN LET collected == Append(results, result[t])
            IN  /\ results' = collected
                /\ completed_count' = Incremented(completed_count)
                /\ dataset_complete' = Append(dataset_complete, t)
                /\ IF BatchComplete(Incremented(completed_count), Len(batch))
                   THEN /\ all_complete' = Append(all_complete, collected)
                        /\ tally' = Append(tally, Tally(collected))
                   ELSE UNCHANGED <<all_complete, tally>>
       ELSE UNCHANGED batch_vars
    /\ UNCHANGED <<manager_vars, status, cancel_requested, pc, wcs_result,
                   result, attempts, provider_vars>>

\* a cancel that only sets the flag, whatever the task's status
FlagOnly(st) == st

\* QgsTask.cancel: no effect on an ended task; a queued task is terminated
\* at once and never runs; a running task only has its flag set
CancelledStatus(st) == IF st = "Queued" THEN "Terminated" ELSE st

\* an active_tasks that cancel_all leaves as it is
NotCleared(tasks) == tasks

\* self.active_tasks.clear()
Cleared(tasks) == <<>>

\* DownloadManager.cancel_all
CancelAll ==
    LET targets == {t \in Range(active_tasks) : status[t] \in {"Queued", "Running"}}
        nth     == IF last_call.op = "cancel_all" THEN last_call.nth + 1 ELSE 1
    IN  /\ nth <= MaxCancelAlls
        /\ cancel_requested' =
               [t \in Tasks |-> cancel_requested[t] \/ t \in targets]
        /\ status' = [t \in Tasks |->
               IF t \in targets THEN CancelledStatus(status[t]) ELSE status[t]]
        /\ active_tasks' = Cleared(active_tasks)
        /\ last_call' = [op |-> "cancel_all", cancelled |-> active_tasks,
                         nth |-> nth]
        /\ UNCHANGED <<api_key, clip_geometry, datasets, batch, batch_vars, pc,
                       wcs_result, result, attempts, finished_called, provider_vars>>

Next ==
    \/ DownloadMultiple
    \/ CancelAll
    \/ \E t \in Tasks, bbox_raises \in BOOLEAN : RunStart(t, bbox_raises)
    \/ \E t \in Tasks, resp \in WcsResponses : TryWcsDownload(t, resp)
    \/ \E t \in Tasks, env \in ExportEnvs : TryExportDownload(t, env)
    \/ \E t \in Tasks, env \in ExportEnvs : TryVectorExportDownload(t, env)
    \/ \E t \in Tasks, clip_raises \in BOOLEAN : Clip(t, clip_raises)
    \/ \E t \in Tasks : Finished(t)

Spec == Init /\ [][Next]_vars

\* The second task of the batch is given a thread and the remote answers
\* it, so each step of it is taken in the end; nothing is assumed of the
\* first task, which may fail, be cancelled or stay in any step for ever.
OtherTaskFairSpec ==
    /\ Spec
    /\ WF_vars(2 \in Tasks /\ \E bbox_raises \in BOOLEAN : RunStart(2, bbox_raises))
    /\ WF_vars(2 \in Tasks /\ \E resp \in WcsResponses : TryWcsDownload(2, resp))
    /\ WF_vars(2 \in Tasks /\ \E env \in ExportEnvs : TryExportDownload(2, env))
    /\ WF_vars(2 \in Tasks /\ \E env \in ExportEnvs : TryVectorExportDownload(2, env))
    /\ WF_vars(2 \in Tasks /\ \E clip_raises \in BOOLEAN : Clip(2, clip_raises))
    /\ WF_vars(2 \in Tasks /\ Finished(2))


(***************************************************************************)
(* The three-dataset example: A (DEM) is streamed at once, B (Topo50) gets *)
(* a 404 from WCS and a clean run of the export job, C is portal-only.     *)
(* The key is set, the bounding box is computed, nothing is cancelled.     *)
(***************************************************************************)
\* the WCS answers of the example, by task
ExampleWcsResponses(t) ==
    IF datasets[t] = DatasetDEM
    THEN {resp \in WcsResponses : WcsAnswerKind(resp) = "ok" /\ ~resp.xml}
    ELSE IF datasets[t] = DatasetTopo
    THEN {resp \in WcsResponses : WcsAnswerKind(resp) = "not_found"}
    ELSE {}

\* the export attempts in which the export service does all it is asked
CleanEnvs == {env \in TerminatingEnvs : ExportRanClean(env, RasterExtensions)}

ExampleInit == Init /\ api_key # ""

ExampleNext ==
    \/ StartBatch(ExampleBatch)
    \/ \E t \in Tasks : RunStart(t, FALSE)
    \/ \E t \in Tasks : \E resp \in ExampleWcsResponses(t) : TryWcsDownload(t, resp)
    \/ \E t \in Tasks, env \in CleanEnvs : TryExportDownload(t, env)
    \/ \E t \in Tasks, clip_raises \in BOOLEAN : Clip(t, clip_raises)
    \/ \E t \in Tasks : Finished(t)

ExampleSpec == ExampleInit /\ [][ExampleNext]_vars

(***************************************************************************)
(* One DownloadManager over several calls: download() on its own,          *)
(* download_multiple and cancel_all in any order, while the tasks run.     *)
(* The key is set and the remote does what it is asked, or answers the WCS *)
(* request with 404.                                                       *)
(***************************************************************************)
\* DownloadManager.download called on its own, without a completion handler
Download(d) ==
    /\ Len(datasets) < MaxTasks
    /\ StartTasks(<<d>>)
    /\ last_call' = [op |-> "download"]
    /\ UNCHANGED <<api_key, clip_geometry, batch, batch_vars, provider_vars>>

\* download_multiple, as long as the tasks it creates are within MaxTasks
DownloadMultipleMore ==
    \E sel \in SUBSET (1..Len(Catalog)) :
        /\ Cardinality(sel) \in 1..MaxDatasets
        /\ Len(datasets) + Cardinality(sel) <= MaxTasks
        /\ StartBatch(Selection(sel, 1))

\* the WCS answers of these runs: the GeoTIFF is streamed, or 404
ManagerWcsResponses ==
    {resp \in WcsResponses :
        \/ WcsAnswerKind(resp) = "ok" /\ ~resp.xml /\ resp.stream_raises = ""
        \/ WcsAnswerKind(resp) = "not_found"}

\* the vector export attempts in which the export service does all it is asked
CleanVectorEnvs == {env \in TerminatingEnvs : ExportRanClean(env, VectorExtensions)}

ManagerInit == Init /\ api_key # "" /\ ~clip_geometry

ManagerNext ==
    \/ \E d \in {DatasetDEM, DatasetParcels} : Download(d)
    \/ DownloadMultipleMore
    \/ CancelAll
    \/ \E t \in Tasks : RunStart(t, FALSE)
    \/ \E t \in Tasks, resp \in ManagerWcsResponses : TryWcsDownload(t, resp)
    \/ \E t \in Tasks, env \in CleanEnvs : TryExportDownload(t, env)
    \/ \E t \in Tasks, env \in CleanVectorEnvs : TryVectorExportDownload(t, env)
    \/ \E t \in Tasks : Finished(t)

ManagerSpec == ManagerInit /\ [][ManagerNext]_vars

(***************************************************************************)
(* providers/linz.py: one call of a transfer strategy followed step by     *)
(* step: the requests it makes, the callback invocations, the files it     *)
(* writes under output_dir.  A step is what the strategy does up to its    *)
(* next request, callback invocation point or return.                      *)
(***************************************************************************)
\* the progress callbacks: a return value for each invocation point
Callbacks == [CallbackPoints -> CallbackReturns]

\* the calls that are followed: the strategy, its dataset and safe_name
\* arguments, the answers of the remote, the callback
StrategyCalls ==
    { [kind |-> "wcs", dataset |-> DatasetDEM,
       safe_name |-> SafeName(DatasetDEM.name), resp |-> r, cb |-> c] :
          r \in WcsResponses, c \in Callbacks }
    \cup
    { [kind |-> "export", dataset |-> DatasetDEM,
       safe_name |-> SafeName(DatasetDEM.name), env |-> e, cb |-> c] :
          e \in ExportEnvs, c \in Callbacks }
    \cup
    { [kind |-> "vector_export", dataset |-> DatasetParcels,
       safe_name |-> SafeName(DatasetParcels.name), env |-> e, cb |-> c] :
          e \in ExportEnvs, c \in Callbacks }

\* the strategy is entered: nothing requested, nothing written
Entered(call) ==
    [call |-> call, pc |-> "start", attempt |-> 0, returned |-> "",
     files |-> <<>>, result |-> NoResult, before |-> <<>>]

\* output_dir / f"{safe_name}.tif", the file the WCS stream is written to
TifPath(call) == PathJoin(OutputDir, call.safe_name \o ".tif")

\* output_dir / f"{safe_name}.zip", the file the export archive is written to
ZipPath(call) == PathJoin(OutputDir, call.safe_name \o ".zip")

\* progress_callback(...) is invoked at point: its return value
Invoke(run, point) == [run EXCEPT !.returned = run.call.cb[point]]

\* the strategy returns r
Returns(run, r) == [run EXCEPT !.pc = "done", !.result = r]

\* the strategy returns a failure with message
Fails(run, message) ==
    Returns(run, Failed(run.call.dataset, OutputDir, message))

\* the files after path was opened "wb", written in part, written in full
\* ("complete") or unlinked
WithFile(files, path, content) ==
    [p \in (DOMAIN files) \cup {path} |-> IF p = path THEN content ELSE files[p]]

WithoutFile(files, path) == [p \in (DOMAIN files) \ {path} |-> files[p]]

\* _try_wcs_download: the GetCoverage request, up to the open of the output
WcsRequest ==
    LET call       == strategy_run.call
        resp       == call.resp
        error_text == Prefix(resp.text, 1000)
    IN  /\ strategy_run.pc = "start"
        /\ call.kind = "wcs"
        /\ strategy_run' =
             IF resp.raises # ""
             THEN Fails(strategy_run,
                        "WCS exception: " \o resp.raises \o ": " \o resp.text)
             ELSE IF resp.status = 404
             THEN Fails(strategy_run, "WCS 404 - layer not available via WCS")
             ELSE IF resp.status >= 400
             THEN Fails(strategy_run,
                        "WCS exception: HTTPError: " \o HTTPErrorText(resp.status))
             ELSE IF /\ resp.xml
                     /\ \/ Contains("exception", Lower(error_text))
                        \/ Contains("error", Lower(error_text))
             THEN Fails(strategy_run, "WCS XML error: " \o Prefix(error_text, 200))
             ELSE [strategy_run EXCEPT
                      !.pc = "stream",
                      !.files = WithFile(@, TifPath(call), "partial")]
        /\ UNCHANGED <<manager_vars, task_vars, batch_vars, search_run, progress_run>>

\* _try_wcs_download: a chunk is written and reported, up to the return
WcsStream ==
    LET call    == strategy_run.call
        resp    == call.resp
        written == IF resp.reports THEN Invoke(strategy_run, "chunk")
                   ELSE strategy_run
    IN  /\ strategy_run.pc = "stream"
        /\ call.kind = "wcs"
        /\ strategy_run' =
             IF resp.reports /\ SignalsCancel(call.cb, "chunk")
             THEN Fails(written, "WCS exception: Exception: Download cancelled")
             ELSE IF resp.stream_raises # ""
             THEN Fails(written, "WCS exception: " \o resp.stream_raises \o ": "
                                     \o ConnectionErrorText)
             ELSE Returns([written EXCEPT
                              !.files = WithFile(@, TifPath(call), "complete")],
                          DownloadResult([dataset |-> call.dataset.id,
                                          output_path |-> TifPath(call),
                                          success |-> TRUE]))
        /\ UNCHANGED <<manager_vars, task_vars, batch_vars, search_run, progress_run>>

\* both export strategies: the export job is submitted
Submit ==
    LET call   == strategy_run.call
        submit == call.env.submit
        raster == call.kind = "export"
    IN  /\ strategy_run.pc = "start"
        /\ call.kind \in {"export", "vector_export"}
        /\ strategy_run' =
             IF submit.raises # ""
             THEN Fails(strategy_run,
                        IF raster
                        THEN "Export request failed: "
                                 \o (IF submit.exc_text # "" THEN submit.exc_text
                                     ELSE "Network error")
                        ELSE submit.exc_text)
             ELSE IF raster /\ submit.status \in {401, 403}
             THEN Fails(strategy_run,
                        "Export auth (" \o ToString(submit.status) \o "): "
                            \o Prefix(submit.body, 300))
             ELSE IF submit.status >= 400
             THEN Fails(strategy_run, RejectionMessage(submit))
             ELSE IF submit.id = ""
             THEN Fails(strategy_run,
                        IF raster THEN "Failed to create export job - no ID returned"
                        ELSE "Failed to create export job")
             ELSE [strategy_run EXCEPT !.pc = "poll"]
        /\ UNCHANGED <<manager_vars, task_vars, batch_vars, search_run, progress_run>>

\* the answer to poll number n: the job keeps the state of the last answer
PollAnswerAt(polls, n) == polls[IF n < Len(polls) THEN n ELSE Len(polls)]

\* Both export strategies: one iteration of "while True", up to the return,
\* the break or the sleep.  attempt is counted up to MaxPolls and stays
\* there in the iterations that follow.
Poll ==
    LET call   == strategy_run.call
        raster == call.kind = "export"
        n      == IF strategy_run.attempt < MaxPolls
                  THEN strategy_run.attempt + 1 ELSE strategy_run.attempt
        info   == PollAnswerAt(call.env.polls, n)
        called == Invoke([strategy_run EXCEPT !.attempt = n], "poll")
    IN  /\ strategy_run.pc = "poll"
        /\ strategy_run' =
             IF SignalsCancel(call.cb, "poll")
             THEN Fails(called, "Download cancelled")
             ELSE IF info.status >= 400
             THEN Fails(called,
                        IF raster
                        THEN "Export HTTP error: " \o HTTPErrorText(info.status)
                        ELSE HTTPErrorText(info.status))
             ELSE IF info.state = "complete" /\ info.download_url # ""
             THEN [called EXCEPT !.pc = "after_poll"]
             ELSE IF info.state \in {"error", "cancelled", "failed"}
             THEN Fails(called,
                        "Export failed: "
                            \o (IF info.has_error THEN info.error ELSE info.state))
             ELSE [called EXCEPT !.pc = "sleep"]
        /\ UNCHANGED <<manager_vars, task_vars, batch_vars, search_run, progress_run>>

\* both export strategies: "time.sleep(5)", then the next iteration
Sleep ==
    /\ strategy_run.pc = "sleep"
    /\ strategy_run' = [strategy_run EXCEPT !.pc = "poll"]
    /\ UNCHANGED <<manager_vars, task_vars, batch_vars, search_run, progress_run>>

\* both export strategies: "progress_callback(60, 0, 0)" after the loop
ReportAfterPoll ==
    /\ strategy_run.pc = "after_poll"
    /\ strategy_run' = [Invoke(strategy_run, "after_poll") EXCEPT !.pc = "fetch"]
    /\ UNCHANGED <<manager_vars, task_vars, batch_vars, search_run, progress_run>>

\* both export strategies: the GET of download_url, up to the open of the zip
Fetch ==
    LET call   == strategy_run.call
        fetch  == call.env.fetch
        raster == call.kind = "export"
    IN  /\ strategy_run.pc = "fetch"
        /\ strategy_run' =
             IF fetch.raises # ""
             THEN Fails(strategy_run,
                        IF raster
                        THEN "Export exception: " \o fetch.raises \o ": "
                                 \o ConnectionErrorText
                        ELSE ConnectionErrorText)
             ELSE IF fetch.status >= 400
             THEN Fails(strategy_run,
                        IF raster
                        THEN "Export HTTP error: " \o HTTPErrorText(fetch.status)
                        ELSE HTTPErrorText(fetch.status))
             ELSE [strategy_run EXCEPT
                      !.pc = "stream",
                      !.files = WithFile(@, ZipPath(call), "partial")]
        /\ UNCHANGED <<manager_vars, task_vars, batch_vars, search_run, progress_run>>

\* both export strategies: a chunk of the zip is written and reported
ExportStream ==
    LET call    == strategy_run.call
        fetch   == call.env.fetch
        raster  == call.kind = "export"
        written == IF fetch.reports THEN Invoke(strategy_run, "chunk")
                   ELSE strategy_run
    IN  /\ strategy_run.pc = "stream"
        /\ call.kind \in {"export", "vector_export"}
        /\ strategy_run' =
             IF fetch.reports /\ SignalsCancel(call.cb, "chunk")
             THEN Fails(written,
                        IF raster THEN "Export exception: Exception: Download cancelled"
                        ELSE "Download cancelled")
             ELSE IF fetch.stream_raises # ""
             THEN Fails(written,
                        IF raster
                        THEN "Export exception: " \o fetch.stream_raises \o ": "
                                 \o ConnectionErrorText
                        ELSE ConnectionErrorText)
             ELSE [written EXCEPT
                      !.pc = "extract",
                      !.files = WithFile(@, ZipPath(call), "complete")]
        /\ UNCHANGED <<manager_vars, task_vars, batch_vars, search_run, progress_run>>

\* Both export strategies: the first member with a known extension is
\* extracted and the zip unlinked.  _try_export_download goes on to the
\* reprojection and returns; _try_vector_export_download returns when
\* nothing was extracted.
Extract ==
    LET call      == strategy_run.call
        archive   == call.env.archive
        raster    == call.kind = "export"
        member    == IF archive.is_zip
                     THEN FirstMember(archive.members,
                              IF raster THEN RasterExtensions ELSE VectorExtensions)
                     ELSE ""
        unzipped  == IF ~archive.is_zip THEN strategy_run.files
                     ELSE WithoutFile(
                              IF member = "" THEN strategy_run.files
                              ELSE WithFile(strategy_run.files,
                                            PathJoin(OutputDir, member), "complete"),
                              ZipPath(call))
        lost      == member # "" /\ call.env.reproject = "lost"
        extracted == member # "" /\ ~lost
        kwargs    == [dataset |-> call.dataset.id,
                      output_path |-> IF extracted THEN PathJoin(OutputDir, member)
                                      ELSE ZipPath(call),
                      success |-> TRUE, already_clipped |-> TRUE]
    IN  /\ strategy_run.pc = "extract"
        /\ strategy_run' =
             IF raster
             THEN LET left == [strategy_run EXCEPT !.files =
                                  IF lost
                                  THEN WithoutFile(unzipped, PathJoin(OutputDir, member))
                                  ELSE unzipped]
                  IN  IF AcceptsKwargs(kwargs)
                      THEN Returns(left, DownloadResult(kwargs))
                      ELSE Fails(left, "Export exception: TypeError: "
                                           \o UnexpectedKeywordText(kwargs))
             ELSE IF ~archive.is_zip
             THEN Fails(strategy_run,
                        "Failed to extract vector file: File is not a zip file")
             ELSE IF member = ""
             THEN Fails([strategy_run EXCEPT !.files = unzipped],
                        "No vector file found in export")
             ELSE [strategy_run EXCEPT !.pc = "final", !.files = unzipped]
        /\ UNCHANGED <<manager_vars, task_vars, batch_vars, search_run, progress_run>>

\* _try_vector_export_download: "progress_callback(100, 0, 0)" and the return
ReportFinal ==
    LET call   == strategy_run.call
        member == FirstMember(call.env.archive.members, VectorExtensions)
        kwargs == [dataset |-> call.dataset.id,
                   output_path |-> PathJoin(OutputDir, member),
                   success |-> TRUE, already_clipped |-> TRUE]
        called == Invoke(strategy_run, "final")
    IN  /\ strategy_run.pc = "final"
        /\ strategy_run' =
             IF AcceptsKwargs(kwargs)
             THEN Returns(called, DownloadResult(kwargs))
             ELSE Fails(called, UnexpectedKeywordText(kwargs))
        /\ UNCHANGED <<manager_vars, task_vars, batch_vars, search_run, progress_run>>

StrategyInit ==
    /\ api_key = "0123abcd"
    /\ clip_geometry = FALSE
    /\ NoDownloads
    /\ strategy_run \in {Entered(call) : call \in StrategyCalls}
    /\ search_run = NoRun
    /\ progress_run = NoRun

StrategyNext ==
    \/ WcsRequest
    \/ WcsStream
    \/ Submit
    \/ Poll
    \/ Sleep
    \/ ReportAfterPoll
    \/ Fetch
    \/ ExportStream
    \/ Extract
    \/ ReportFinal

StrategySpec == StrategyInit /\ [][StrategyNext]_vars

\* _download_raster after an unsuccessful WCS attempt: the export strategy
\* is called with the same arguments.  before keeps what the WCS attempt
\* returned and what the callback returned last.
ExportAfterWcs ==
    LET call == strategy_run.call
    IN  /\ strategy_run.pc = "done"
        /\ call.kind = "wcs"
        /\ ~WcsSettles(strategy_run.result)
        /\ \E env \in ExportEnvs :
              strategy_run' =
                [Entered([kind |-> "export", dataset |-> call.dataset,
                          safe_name |-> call.safe_name, env |-> env, cb |-> call.cb])
                   EXCEPT !.files = strategy_run.files,
                          !.before = <<[kind |-> "wcs",
                                        returned |-> strategy_run.returned,
                                        result |-> strategy_run.result]>>]
        /\ UNCHANGED <<manager_vars, task_vars, batch_vars, search_run, progress_run>>

\* _download_raster called with any callback: the chain of the raster
\* strategies, each followed step by step
ChainInit ==
    /\ api_key = "0123abcd"
    /\ clip_geometry = FALSE
    /\ NoDownloads
    /\ strategy_run \in {Entered(call) : call \in {c \in StrategyCalls : c.kind = "wcs"}}
    /\ search_run = NoRun
    /\ progress_run = NoRun

ChainNext ==
    \/ WcsRequest
    \/ WcsStream
    \/ ExportAfterWcs
    \/ Submit
    \/ Poll
    \/ Sleep
    \/ ReportAfterPoll
    \/ Fetch
    \/ ExportStream
    \/ Extract

ChainSpec == ChainInit /\ [][ChainNext]_vars

\* _try_export_download after the extraction, step by step: the look at
\* the CRS of the extracted raster, the warp, the loop that puts the
\* reprojected file in the place of the extracted one, and the return.
\* for attempt in range(3)
RenameAttempts == 3

\* one iteration of that loop: unlink and rename succeed, or extracted_path
\* cannot be unlinked (PermissionError), or the rename raises OSError
RenameOutcomes == {"ok", "unlink_fails", "rename_fails"}

\* What the step meets: the CRS QgsRasterLayer reads ("" when the layer is
\* not valid), what gdal:warpreproject does, and the outcome of each
\* iteration of the rename loop.
ReprojectEnvs ==
    [crs : {"", "EPSG:2193", "EPSG:4326"},
     warp : {"written", "raises", "nothing"},
     renames : [1..RenameAttempts -> RenameOutcomes]]

\* extracted_path.with_name(f"{extracted_path.stem}_2193{extracted_path.suffix}")
ReprojectedPath(extracted_path) ==
    LET dot == LastDot(extracted_path, Len(extracted_path))
    IN  IF dot = 0 THEN extracted_path \o "_2193"
        ELSE SubSeq(extracted_path, 1, dot - 1) \o "_2193"
                 \o SubSeq(extracted_path, dot, Len(extracted_path))

\* the raster was extracted from the archive and the archive unlinked
Extracted(post) ==
    [pc |-> "reproject", post |-> post, attempt |-> 0, dataset |-> DatasetDEM,
     zip |-> PathJoin(OutputDir, SafeName(DatasetDEM.name) \o ".zip"),
     extracted |-> PathJoin(OutputDir, "DEM.TIF"),
     reprojected |-> ReprojectedPath(PathJoin(OutputDir, "DEM.TIF")),
     files |-> WithFile(<<>>, PathJoin(OutputDir, "DEM.TIF"), "complete"),
     result |-> NoResult]

\* the CRS is read and, for EPSG:4326, the raster warped; whatever raises
\* is passed by the bare except around the step
InspectAndWarp ==
    /\ strategy_run.pc = "reproject"
    /\ strategy_run' =
         IF strategy_run.post.crs = "EPSG:4326" /\ strategy_run.post.warp = "written"
         THEN [strategy_run EXCEPT
                  !.pc = "rename",
                  !.files = WithFile(@, strategy_run.reprojected, "complete")]
         ELSE [strategy_run EXCEPT !.pc = "return"]
    /\ UNCHANGED <<manager_vars, task_vars, batch_vars, search_run, progress_run>>

\* One iteration of "for attempt in range(3)": extracted_path.unlink()
\* raises when the file is locked and when an earlier iteration has
\* unlinked it; a failure is followed by a sleep of 0.5 s and the next
\* iteration, in the last iteration it is raised and passed by the except.
ReplaceAttempt ==
    LET n        == strategy_run.attempt + 1
        outcome  == strategy_run.post.renames[n]
        unlinked == /\ strategy_run.extracted \in DOMAIN strategy_run.files
                    /\ outcome # "unlink_fails"
        left     == IF unlinked
                    THEN WithoutFile(strategy_run.files, strategy_run.extracted)
                    ELSE strategy_run.files
    IN  /\ strategy_run.pc = "rename"
        /\ strategy_run' =
             IF unlinked /\ outcome = "ok"
             THEN [strategy_run EXCEPT
                      !.attempt = n,
                      !.pc = "return",
                      !.files = WithFile(WithoutFile(left, strategy_run.reprojected),
                                         strategy_run.extracted, "complete")]
             ELSE [strategy_run EXCEPT
                      !.attempt = n,
                      !.pc = IF n < RenameAttempts THEN "rename" ELSE "return",
                      !.files = left]
        /\ UNCHANGED <<manager_vars, task_vars, batch_vars, search_run, progress_run>>

\* final_path and the return of _try_export_download
ReturnAfterReprojection ==
    LET kwargs == [dataset |-> strategy_run.dataset.id,
                   output_path |->
                       IF strategy_run.extracted \in DOMAIN strategy_run.files
                       THEN strategy_run.extracted ELSE strategy_run.zip,
                   success |-> TRUE, already_clipped |-> TRUE]
    IN  /\ strategy_run.pc = "return"
        /\ strategy_run' =
             [strategy_run EXCEPT
                !.pc = "done",
                !.result =
                    IF AcceptsKwargs(kwargs) THEN DownloadResult(kwargs)
                    ELSE Failed(strategy_run.dataset, OutputDir,
                                "Export exception: TypeError: "
                                    \o UnexpectedKeywordText(kwargs))]
        /\ UNCHANGED <<manager_vars, task_vars, batch_vars, search_run, progress_run>>

ReprojectInit ==
    /\ api_key = "0123abcd"
    /\ clip_geometry = FALSE
    /\ NoDownloads
    /\ strategy_run \in {Extracted(post) : post \in ReprojectEnvs}
    /\ search_run = NoRun
    /\ progress_run = NoRun

ReprojectNext ==
    \/ InspectAndWarp
    \/ ReplaceAttempt
    \/ ReturnAfterReprojection

ReprojectSpec == ReprojectInit /\ [][ReprojectNext]_vars

\* The files two tasks of one batch write.  download() derives safe_name
\* from dataset.name alone, the strategies write output_dir / safe_name
\* with ".tif" and ".zip", and the extraction writes output_dir / member
\* for the member of the archive it picks.
\* datasets a search may return together: the ids differ
BatchCandidates ==
    { DatasetDEM, DatasetTopo, DatasetParcels,
      Dataset("51769", "NZ 8m DEM 2012", RASTER, FALSE),
      Dataset("50768", "NZ Topo50 Maps", RASTER, FALSE),
      Dataset("50773", "NZ Primary/Parcels", VECTOR, FALSE) }

\* the member the extraction picks, named by the remote
PickedMembers == {"BQ31.tif", "layer.gpkg", "DEM.TIF"}

\* the download of dataset with an archive holding member: nothing written yet
Planned(dataset, member) ==
    [dataset |-> dataset, member |-> member, entered |-> FALSE, written |-> {}]

\* the paths a run of download() for dataset opens for writing, over its
\* strategies: _try_wcs_download (rasters only) writes the .tif, the export
\* strategy the .zip and the extracted member
WrittenPaths(dataset, member) ==
    LET safe_name == SafeName(dataset.name)
    IN  (IF dataset.data_type = RASTER
         THEN {PathJoin(OutputDir, safe_name \o ".tif")} ELSE {})
            \cup {PathJoin(OutputDir, safe_name \o ".zip"),
                  PathJoin(OutputDir, member)}

\* the run of task i of the batch
DownloadWrites(i) ==
    /\ strategy_run.pc = "paths"
    /\ ~strategy_run.runs[i].entered
    /\ strategy_run' =
         [strategy_run EXCEPT
            !.runs[i].entered = TRUE,
            !.runs[i].written = WrittenPaths(strategy_run.runs[i].dataset,
                                             strategy_run.runs[i].member)]
    /\ UNCHANGED <<manager_vars, task_vars, batch_vars, search_run, progress_run>>

PathsInit ==
    /\ api_key = "0123abcd"
    /\ clip_geometry = FALSE
    /\ NoDownloads
    /\ strategy_run \in
         {[pc |-> "paths", runs |-> <<Planned(d, m), Planned(e, n)>>] :
             d \in BatchCandidates, e \in BatchCandidates, m \in PickedMembers,
             n \in PickedMembers}
    /\ strategy_run.runs[1].dataset # strategy_run.runs[2].dataset
    /\ search_run = NoRun
    /\ progress_run = NoRun

PathsNext == \E i \in {1, 2} : DownloadWrites(i)

PathsSpec == PathsInit /\ [][PathsNext]_vars

\* The export strategies called with the callback run() hands to them.
\* A strategy runs on a worker thread that nothing suspends: the
\* submission, the iterations of the polling loop and its sleeps are taken
\* as long as the strategy is in them.
PollingCalls ==
    {call \in StrategyCalls :
        call.kind \in {"export", "vector_export"} /\ call.cb = TaskCallback}

PollingInit ==
    /\ api_key = "0123abcd"
    /\ clip_geometry = FALSE
    /\ NoDownloads
    /\ strategy_run \in {Entered(call) : call \in PollingCalls}
    /\ search_run = NoRun
    /\ progress_run = NoRun

PollingNext ==
    \/ Submit
    \/ Poll
    \/ Sleep
    \/ ReportAfterPoll
    \/ Fetch
    \/ ExportStream
    \/ Extract
    \/ ReportFinal

PollingSpec ==
    /\ PollingInit
    /\ [][PollingNext]_vars
    /\ WF_vars(Submit) /\ WF_vars(Poll) /\ WF_vars(Sleep)

(***************************************************************************)
(* providers/linz.py: search.  One call of _search_single_domain is        *)
(* followed step by step: the listing of the layers, the coverage probes   *)
(* _validate_coverage runs on the threads of its executor, the collection  *)
(* of their results in completion order, and the construction of the       *)
(* datasets.                                                               *)
(***************************************************************************)
RASTER_KEYWORDS ==
    {"dem", "dsm", "dtm", "lidar", "elevation", "raster", "imagery",
     "aerial", "satellite", "orthophoto", "rgb", "hillshade", "height"}

\* LINZProvider._detect_data_type of a layer listed without services
detect_data_type(layer_type, layer_title) ==
    IF Contains("raster", Lower(layer_type)) \/ Contains("coverage", Lower(layer_type))
    THEN RASTER
    ELSE IF \E kw \in RASTER_KEYWORDS : Contains(kw, Lower(layer_title))
    THEN RASTER
    ELSE VECTOR

\* a layer of the listing, with the data type _detect_data_type gives it
Layer(layer_id, layer_title, layer_type) ==
    [id |-> layer_id, title |-> layer_title, type |-> layer_type,
     data_type |-> detect_data_type(layer_type, layer_title)]

\* the layers the portal lists, in listing order
PortalLayers ==
    << Layer("51768", "NZ 8m DEM (2012)", "raster"),
       Layer("50772", "NZ Primary Parcels", "vector"),
       Layer("53519", "Aerial/Photos 2019", "raster"),
       Layer("50767", "NZ Topo50 Maps", "raster") >>

\* a listing of n layers
Listed(n) == SubSeq(PortalLayers, 1, n)

\* What the exports endpoint does with one probe: requests.post raises
\* (raises names the exception), or answers with a status code and a body
\* that is JSON or not; a 201 body holds the id of the export that was
\* created, and the DELETE of that export raises or not; a 200 body holds
\* is_valid.
ProbeAnswer(raises, status_code, has_json, is_valid, delete_raises) ==
    [raises |-> raises, status_code |-> status_code, has_json |-> has_json,
     is_valid |-> is_valid, delete_raises |-> delete_raises]

ProbeAnswers ==
    { ProbeAnswer("", 201, TRUE, FALSE, FALSE),
      ProbeAnswer("", 201, TRUE, FALSE, TRUE),
      ProbeAnswer("", 201, FALSE, FALSE, FALSE),
      ProbeAnswer("", 200, TRUE, TRUE, FALSE),
      ProbeAnswer("", 200, TRUE, FALSE, FALSE),
      ProbeAnswer("", 400, TRUE, FALSE, FALSE),
      ProbeAnswer("Timeout", 0, FALSE, FALSE, FALSE),
      ProbeAnswer("ConnectionError", 0, FALSE, FALSE, FALSE) }

\* how a call ends: it returns a string, returns None, or raises
Returned(value) == [raised |-> "", none |-> FALSE, value |-> value]
ReturnedNone    == [raised |-> "", none |-> TRUE, value |-> ""]
Raised(exception) == [raised |-> exception, none |-> FALSE, value |-> ""]

\* the try block of _check_single_layer_coverage; the DELETE of the export
\* is in a try of its own whose except passes
ProbeBody(layer_id, answer) ==
    IF answer.raises # "" THEN Raised(answer.raises)
    ELSE IF answer.status_code = 201
    THEN IF answer.has_json THEN Returned(layer_id) ELSE Raised("JSONDecodeError")
    ELSE IF answer.status_code = 200
    THEN IF ~answer.has_json THEN Raised("JSONDecodeError")
         ELSE IF answer.is_valid THEN Returned(layer_id) ELSE ReturnedNone
    ELSE ReturnedNone

\* a probe whose try block has no except clause
Uncaught(outcome) == outcome

\* except: pass, and the return None after it
Caught(outcome) == IF outcome.raised # "" THEN ReturnedNone ELSE outcome

\* LINZProvider._check_single_layer_coverage
check_single_layer_coverage(layer_id, answer, key) ==
    IF key = "" THEN ReturnedNone ELSE Caught(ProbeBody(layer_id, answer))

\* if result:
Truthy(outcome) == ~outcome.none /\ outcome.value # ""

\* a collection that keeps only the layer confirmed last
Latest(valid, layer_id) == {layer_id}

\* valid_ids.add(result)
Added(valid, layer_id) == valid \cup {layer_id}

\* a search that never flags a dataset
NeverFlagged(has_coverage, show_all) == FALSE

\* is_portal_only = not has_coverage and show_all
PortalOnly(has_coverage, show_all) == ~has_coverage /\ show_all

\* the GET of the layers: a page of layers, a 401, 403 or 404, or a
\* requests.RequestException (raised by the GET or by raise_for_status)
Listings == {"ok", "refused", "error"}

\* the ProbeAnswer of a layer no probe is made for
NoAnswer == ProbeAnswer("", 0, FALSE, FALSE, FALSE)

\* The calls of _search_single_domain: bbox is set or None, show_all, what
\* the GET of the layers answers and what the exports endpoint answers to
\* the probe of each listed layer.
SearchCalls ==
    {[geometry |-> g, show_all |-> s, listing |-> l, layers |-> Listed(n), answers |-> a] :
        g \in BOOLEAN, s \in BOOLEAN, l \in Listings, n \in {0}, a \in {<<>>}}
    \cup
    UNION {
        {[geometry |-> TRUE, show_all |-> s, listing |-> "ok", layers |-> Listed(n), answers |-> a] :
            s \in BOOLEAN, a \in [1..n -> ProbeAnswers]}
        \cup
        {[geometry |-> FALSE, show_all |-> s, listing |-> "ok", layers |-> Listed(n), answers |-> a] :
            s \in BOOLEAN, a \in {[i \in 1..n |-> NoAnswer]}}
        : n \in 1..MaxLayers }

\* the ids of the listed layers: all_layer_ids
LayerIds(call) == {call.layers[i].id : i \in DOMAIN call.layers}

\* _search_single_domain is entered
Searching(call) ==
    [call |-> call, pc |-> "start", pending |-> {}, completed |-> <<>>,
     collected |-> <<>>, confirmed |-> {}, valid_ids |-> {}, found |-> <<>>]

\* The loop over layer_map: the datasets appended to the categories, in
\* the order of the listing.
RECURSIVE Built(_, _, _)
Built(call, valid, i) ==
    IF i > Len(call.layers) THEN <<>>
    ELSE LET layer          == call.layers[i]
             has_coverage   == layer.id \in valid
             is_portal_only == PortalOnly(has_coverage, call.show_all)
             name_prefix    == IF is_portal_only THEN "[No Coverage] " ELSE ""
         IN  IF ~has_coverage /\ ~call.show_all
             THEN Built(call, valid, i + 1)
             ELSE <<Dataset(layer.id, name_prefix \o layer.title, layer.data_type,
                            is_portal_only)>> \o Built(call, valid, i + 1)

\* _search_single_domain up to the call of _validate_coverage: without an
\* API key, on a refusal, on a RequestException and on an empty listing it
\* returns with no dataset; without a bbox every listed layer counts as
\* valid; with one, _validate_coverage submits a probe for every layer.
SearchLayers ==
    /\ search_run.pc = "start"
    /\ LET call == search_run.call
       IN  search_run' =
             IF api_key = "" \/ call.listing # "ok" \/ call.layers = <<>>
             THEN [search_run EXCEPT !.pc = "done"]
             ELSE IF call.geometry
             THEN [search_run EXCEPT !.pc = "probing", !.pending = DOMAIN call.layers]
             ELSE [search_run EXCEPT !.pc = "build", !.valid_ids = LayerIds(call)]
    /\ UNCHANGED <<manager_vars, task_vars, batch_vars, strategy_run, progress_run>>

\* a thread of the executor finishes the probe of layer i; as_completed
\* yields the futures in the order they finish in
ProbeCompletes(i) ==
    /\ search_run.pc = "probing"
    /\ i \in search_run.pending
    /\ LET call    == search_run.call
           outcome == check_single_layer_coverage(call.layers[i].id, call.answers[i], api_key)
       IN  search_run' =
             [search_run EXCEPT
                !.pending = @ \ {i},
                !.completed = Append(@, [layer |-> i, outcome |-> outcome]),
                !.confirmed = IF outcome.raised = "" /\ ~outcome.none
                              THEN @ \cup {call.layers[i].id} ELSE @]
    /\ UNCHANGED <<manager_vars, task_vars, batch_vars, strategy_run, progress_run>>

\* one iteration of the loop over as_completed: future.result() returns
\* what the probe returned or raises what it raised
Collect ==
    /\ search_run.pc = "probing"
    /\ search_run.completed # <<>>
    /\ LET done    == Head(search_run.completed)
           outcome == done.outcome
       IN  search_run' =
             IF outcome.raised # ""
             THEN [search_run EXCEPT !.pc = "raised",
                                     !.completed = Tail(@),
                                     !.collected = Append(@, done.layer)]
             ELSE [search_run EXCEPT
                     !.completed = Tail(@),
                     !.collected = Append(@, done.layer),
                     !.valid_ids = IF Truthy(outcome) THEN Added(@, outcome.value) ELSE @]
    /\ UNCHANGED <<manager_vars, task_vars, batch_vars, strategy_run, progress_run>>

\* every future was collected: _validate_coverage returns valid_ids
ValidateReturns ==
    /\ search_run.pc = "probing"
    /\ search_run.pending = {}
    /\ search_run.completed = <<>>
    /\ search_run' = [search_run EXCEPT !.pc = "build"]
    /\ UNCHANGED <<manager_vars, task_vars, batch_vars, strategy_run, progress_run>>

\* the loop over layer_map and the return of _search_single_domain
BuildDatasets ==
    /\ search_run.pc = "build"
    /\ search_run' = [search_run EXCEPT
                        !.pc = "done",
                        !.found = Built(search_run.call, search_run.valid_ids, 1)]
    /\ UNCHANGED <<manager_vars, task_vars, batch_vars, strategy_run, progress_run>>

SearchInit ==
    /\ api_key \in {"", "0123abcd"}
    /\ clip_geometry = FALSE
    /\ NoDownloads
    /\ strategy_run = NoRun
    /\ search_run \in {Searching(call) : call \in SearchCalls}
    /\ progress_run = NoRun

SearchNext ==
    \/ SearchLayers
    \/ \E i \in 1..MaxLayers : ProbeCompletes(i)
    \/ Collect
    \/ ValidateReturns
    \/ BuildDatasets

SearchSpec == SearchInit /\ [][SearchNext]_vars

\* The probes run on the threads of the executor and every request of a
\* probe has a timeout (10 s for the POST, 5 s for the DELETE), so every
\* probe finishes; the thread that called _search_single_domain is not
\* suspended, so it takes the futures as they complete.
SearchFairSpec ==
    /\ SearchSpec
    /\ WF_vars(SearchLayers)
    /\ WF_vars(\E i \in 1..MaxLayers : ProbeCompletes(i))
    /\ WF_vars(Collect)
    /\ WF_vars(ValidateReturns)

(***************************************************************************)
(* core/models.py: the size_display property of a Dataset, read any number *)
(* of times on one Dataset.  A size is None or a number, kept as the       *)
(* fraction num / den (den is a power of 1024).                            *)
(***************************************************************************)
MaxReads == 2
MaxSizeUnits == 48

\* size_bytes is None
NoSize == [none |-> TRUE]

\* size_bytes as a provider may set it: None, or a number of bytes
SizesInBytes ==
    {NoSize} \cup {[num |-> k * 256, den |-> 1] : k \in 0..MaxSizeUnits}
        \cup {[num |-> 524288 * k, den |-> 1] : k \in {2, 3}}

SizeUnits == <<"B", "KB", "MB", "GB", "TB">>

\* f"{size:.1f}": the tenths of size rounded to the nearest, a tie to the
\* even one, as the formatting of a float does
OneDecimal(size) ==
    LET q == (size.num * 10) \div size.den
        r == (size.num * 10) % size.den
    IN  IF 2 * r > size.den THEN q + 1
        ELSE IF 2 * r = size.den THEN q + (q % 2)
        ELSE q

\* the loop of size_display from unit i on, with self.size_bytes = size:
\* the text returned and self.size_bytes as the loop leaves it
RECURSIVE SizeLoop(_, _)
SizeLoop(size, i) ==
    IF i > Len(SizeUnits)
    THEN [text |-> [tenths |-> OneDecimal(size), unit |-> "PB"], size_bytes |-> size]
    ELSE IF size.num < 1024 * size.den
    THEN [text |-> [tenths |-> OneDecimal(size), unit |-> SizeUnits[i]],
          size_bytes |-> size]
    ELSE SizeLoop([num |-> size.num, den |-> size.den * 1024], i + 1)

\* Dataset.size_display
size_display(size) ==
    IF size = NoSize THEN [text |-> "Unknown", size_bytes |-> size]
    ELSE SizeLoop(size, 1)

\* a Dataset as it was produced, not read yet
Produced(size) == [pc |-> "dataset", produced |-> size, size_bytes |-> size, reads |-> <<>>]

\* dataset.size_display is read
ReadSizeDisplay ==
    LET read == size_display(search_run.size_bytes)
    IN  /\ search_run.pc = "dataset"
        /\ Len(search_run.reads) < MaxReads
        /\ search_run' =
             [search_run EXCEPT
                !.size_bytes = read.size_bytes,
                !.reads = Append(@, read.text)]
        /\ UNCHANGED <<manager_vars, task_vars, batch_vars, strategy_run, progress_run>>

DatasetInit ==
    /\ api_key = "0123abcd"
    /\ clip_geometry = FALSE
    /\ NoDownloads
    /\ strategy_run = NoRun
    /\ search_run \in {Produced(size) : size \in SizesInBytes}
    /\ progress_run = NoRun

DatasetNext == ReadSizeDisplay

DatasetSpec == DatasetInit /\ [][DatasetNext]_vars

(***************************************************************************)
(* Progress reporting.  The reports of one download are followed from the  *)
(* strategy (providers/linz.py) through DownloadTask.run.progress_callback *)
(* (core/downloader.py) and MainDialog._on_progress to the labels of       *)
(* DownloadProgressWidget (gui/widgets/progress_widget.py).  Percentages   *)
(* are counted in tenths of a percent, time in ticks of half a second.     *)
(***************************************************************************)
\* None of DownloadProgressWidget._pending_update, and no sample shown yet
NoSample == [none |-> TRUE]

Smaller(a, b) == IF a < b THEN a ELSE b

\* the chunks iter_content yields, by their lengths
ChunkLists == {<<200>>, <<100, 100>>, <<1, 199>>, <<1, 1, 198>>}

\* A download whose reports are followed: the strategy, the content-length
\* header of the streamed response (0 when there is none) and the chunks.
\* A stream with a content-length delivers that many bytes.
ProgressCalls ==
    {[kind |-> k, total_size |-> t, chunks |-> c] :
        k \in {"wcs", "export", "vector_export"}, t \in {0, 200}, c \in ChunkLists}

\* a speed of 0
NoSpeed == [num |-> 0, den |-> 1]

\* DownloadProgressWidget._reset_file_stats at time now
ResetFileStats(now) ==
    [total_bytes |-> 0, bytes_downloaded |-> 0, start_time |-> now,
     last_update_time |-> now, last_bytes |-> 0, speed |-> NoSpeed]

\* DownloadProgressWidget._schedule_update
ScheduleUpdate(widget) ==
    [bytes |-> widget.bytes_downloaded, total |-> widget.total_bytes,
     speed |-> widget.speed, start_time |-> widget.start_time]

\* DownloadProgressWidget.update_progress with bytes_downloaded and
\* total_bytes given, at time now: the fields of the widget after it
UpdateProgress(widget, bytes_downloaded, total_bytes, now) ==
    LET sized     == IF total_bytes > 0
                     THEN [widget EXCEPT !.total_bytes = total_bytes] ELSE widget
        counted   == [sized EXCEPT !.bytes_downloaded = bytes_downloaded]
        time_diff == now - widget.last_update_time
    IN  IF time_diff >= 1
        THEN [counted EXCEPT
                !.speed = [num |-> bytes_downloaded - widget.last_bytes,
                           den |-> time_diff],
                !.last_update_time = now,
                !.last_bytes = bytes_downloaded]
        ELSE counted

\* a widget that shows an ETA at a falling byte count as well
EtaAtAnyRate(speed, total) == speed.num # 0 /\ total > 0

\* data['speed'] > 0 and data['total'] > 0
EtaEmitted(speed, total) == speed.num > 0 /\ total > 0

\* min(100, int(data['bytes'] / data['total'] * 100)); bytes is never
\* negative, and bytes / total is exactly 1.0 when bytes = total
BarPercent(bytes, total) == Smaller(100, (bytes * 100) \div total)

\* DownloadProgressWidget._process_pending_update at time now: what the
\* progress bar and the ETA label show; seconds are counted in ticks
ProcessPendingUpdate(data, now) ==
    [percent |-> IF data.total > 0 THEN BarPercent(data.bytes, data.total) ELSE 0,
     bytes |-> data.bytes, total |-> data.total, speed |-> data.speed,
     eta |-> IF EtaEmitted(data.speed, data.total)
             THEN [label |-> "ETA",
                   seconds |-> ((data.total - data.bytes) * data.speed.den)
                                   \div data.speed.num]
             ELSE [label |-> "Elapsed", seconds |-> now - data.start_time]]

\* the download is entered: nothing reported, the widget as constructed
Reporting(call) ==
    [call |-> call, pc |-> "start", now |-> 0, attempt |-> 0, next |-> 1,
     downloaded |-> 0, last_percent |-> 0, percent |-> -1, phase |-> "",
     task |-> [total_bytes |-> 0, bytes_downloaded |-> 0],
     widget |-> ResetFileStats(0), pending |-> NoSample, shown |-> NoSample]

\* progress_callback(percent, downloaded, total_size) as run() defines it:
\* the fields of the task are set and on_progress hands the byte counts to
\* update_progress, which schedules an update.  phase names the place of
\* the strategy the report comes from.
Report(run, phase, percent, downloaded, total_size) ==
    LET updated == UpdateProgress(run.widget, downloaded, total_size, run.now)
    IN  [run EXCEPT
            !.percent = percent,
            !.phase = phase,
            !.task = [total_bytes |-> total_size, bytes_downloaded |-> downloaded],
            !.widget = updated,
            !.pending = ScheduleUpdate(updated)]

\* DownloadTask.run: on_file_start(dataset.name, 0), which is start_file
StartFile ==
    /\ progress_run.pc = "start"
    /\ progress_run' =
         [progress_run EXCEPT
            !.pc = IF progress_run.call.kind = "wcs" THEN "stream" ELSE "poll",
            !.widget = ResetFileStats(progress_run.now),
            !.pending = [bytes |-> 0, total |-> 0, speed |-> NoSpeed,
                         start_time |-> progress_run.now]]
    /\ UNCHANGED <<manager_vars, task_vars, batch_vars, strategy_run, search_run>>

\* a polling loop that reports attempt * 0.5 as it is
UncappedPollPercent(attempt) == attempt * 5

\* min(50, attempt * 0.5)
PollPercent(attempt) == Smaller(500, attempt * 5)

\* both export strategies: an iteration of the polling loop reports
\* min(50, attempt * 0.5); the job is complete or the loop goes on
PollReports ==
    /\ progress_run.pc = "poll"
    /\ progress_run.attempt < MaxAttempts
    /\ \E complete \in BOOLEAN :
         LET attempt == progress_run.attempt + 1
             counted == [progress_run EXCEPT !.attempt = attempt]
         IN  progress_run' =
               [Report(counted, "poll", PollPercent(attempt), 0, 0) EXCEPT
                  !.pc = IF complete THEN "after_poll" ELSE "poll"]
    /\ UNCHANGED <<manager_vars, task_vars, batch_vars, strategy_run, search_run>>

\* both export strategies: progress_callback(60, 0, 0)
SixtyReported ==
    /\ progress_run.pc = "after_poll"
    /\ progress_run' = [Report(progress_run, "fetch", 600, 0, 0) EXCEPT !.pc = "stream"]
    /\ UNCHANGED <<manager_vars, task_vars, batch_vars, strategy_run, search_run>>

\* the percent a strategy computes for downloaded bytes of total_size
StreamPercent(kind, downloaded, total_size) ==
    IF kind = "wcs" THEN (downloaded * 1000) \div total_size
    ELSE 600 + (downloaded * 400) \div total_size

\* the strategy reports the chunk: _try_wcs_download a step of 1 percent,
\* _try_export_download a step of 0.4, both the last chunk;
\* _try_vector_export_download every chunk
ChunkReported(kind, percent, last_percent, downloaded, total_size) ==
    IF kind = "wcs" THEN percent - last_percent >= 10 \/ downloaded = total_size
    ELSE IF kind = "export" THEN percent - last_percent >= 4 \/ downloaded = total_size
    ELSE TRUE

\* a chunk of the stream is written and counted, and reported when the
\* response has a content-length
ChunkWritten ==
    LET call       == progress_run.call
        downloaded == progress_run.downloaded + call.chunks[progress_run.next]
        percent    == StreamPercent(call.kind, downloaded, call.total_size)
        counted    == [progress_run EXCEPT
                          !.downloaded = downloaded,
                          !.next = @ + 1,
                          !.pc = IF progress_run.next < Len(call.chunks) THEN "stream"
                                 ELSE IF call.kind = "vector_export" THEN "final"
                                 ELSE "done"]
    IN  /\ progress_run.pc = "stream"
        /\ progress_run' =
             IF /\ call.total_size > 0
                /\ ChunkReported(call.kind, percent, progress_run.last_percent,
                                 downloaded, call.total_size)
             THEN [Report(counted, "stream", percent, downloaded, call.total_size)
                      EXCEPT !.last_percent =
                                IF call.kind = "vector_export" THEN @ ELSE percent]
             ELSE counted
        /\ UNCHANGED <<manager_vars, task_vars, batch_vars, strategy_run, search_run>>

\* _try_vector_export_download: progress_callback(100, 0, 0)
HundredReported ==
    /\ progress_run.pc = "final"
    /\ progress_run' = [Report(progress_run, "final", 1000, 0, 0) EXCEPT !.pc = "done"]
    /\ UNCHANGED <<manager_vars, task_vars, batch_vars, strategy_run, search_run>>

\* half a second passes
Tick ==
    /\ progress_run.pc # "none"
    /\ progress_run.now < MaxTicks
    /\ progress_run' = [progress_run EXCEPT !.now = @ + 1]
    /\ UNCHANGED <<manager_vars, task_vars, batch_vars, strategy_run, search_run>>

\* a timer whose handler renders the pending update and leaves it pending
TimerKeepsSample ==
    /\ progress_run.pc # "none"
    /\ progress_run.pending # NoSample
    /\ progress_run' =
         [progress_run EXCEPT
            !.shown = ProcessPendingUpdate(progress_run.pending, progress_run.now)]
    /\ UNCHANGED <<manager_vars, task_vars, batch_vars, strategy_run, search_run>>

\* the 100 ms timer of the widget fires with an update pending
TimerFires ==
    /\ progress_run.pc # "none"
    /\ progress_run.pending # NoSample
    /\ progress_run' =
         [progress_run EXCEPT
            !.pending = NoSample,
            !.shown = ProcessPendingUpdate(progress_run.pending, progress_run.now)]
    /\ UNCHANGED <<manager_vars, task_vars, batch_vars, strategy_run, search_run>>

ProgressInit ==
    /\ api_key = "0123abcd"
    /\ clip_geometry = FALSE
    /\ NoDownloads
    /\ strategy_run = NoRun
    /\ search_run = NoRun
    /\ progress_run \in {Reporting(call) : call \in ProgressCalls}

ProgressNext ==
    \/ StartFile
    \/ PollReports
    \/ SixtyReported
    \/ ChunkWritten
    \/ HundredReported
    \/ Tick
    \/ TimerFires

ProgressSpec == ProgressInit /\ [][ProgressNext]_vars

(***************************************************************************)
(* core/downloader.py: the callbacks of two tasks of a batch in the order  *)
(* they are invoked.  run() executes on a worker thread of the task        *)
(* manager, one per task; finished() is called on the main thread.         *)
(***************************************************************************)
MaxReports == 2

\* a callback invoked for task i
Invoked(cb, i) == [cb |-> cb, task |-> i]

\* a task as download() queued it
QueuedRun == [pc |-> "queued", reports |-> 0, result |-> NoResult]

\* QgsTask calls finished() once the task has ended: run() has returned
\* or raised, or the task was cancelled before it ran
TaskEnded(run) == run.pc = "returned"

\* run(): "self.on_file_start(self.dataset.name, self._total_bytes)"
RunEnters(i) ==
    /\ progress_run.pc = "tasks"
    /\ progress_run.runs[i].pc = "queued"
    /\ progress_run' =
         [progress_run EXCEPT
            !.runs[i].pc = "download",
            !.log = Append(@, Invoked("on_file_start", i))]
    /\ UNCHANGED <<manager_vars, task_vars, batch_vars, strategy_run, search_run>>

\* the strategy invokes progress_callback, which calls on_progress
ProgressCallback(i) ==
    /\ progress_run.pc = "tasks"
    /\ progress_run.runs[i].pc = "download"
    /\ progress_run.runs[i].reports < MaxReports
    /\ progress_run' =
         [progress_run EXCEPT
            !.runs[i].reports = @ + 1,
            !.log = Append(@, Invoked("on_progress", i))]
    /\ UNCHANGED <<manager_vars, task_vars, batch_vars, strategy_run, search_run>>

\* provider.download returns a result or raises, the clip step (which
\* invokes no callback) is done and run() has ended
RunReturns(i, outcome) ==
    /\ progress_run.pc = "tasks"
    /\ progress_run.runs[i].pc = "download"
    /\ progress_run' =
         [progress_run EXCEPT
            !.runs[i].pc = "returned",
            !.runs[i].result = IF outcome = "none" THEN NoResult
                               ELSE [success |-> outcome = "success"]]
    /\ UNCHANGED <<manager_vars, task_vars, batch_vars, strategy_run, search_run>>

\* cancel_all while the task is queued: it ends without having run
CancelledQueued(i) ==
    /\ progress_run.pc = "tasks"
    /\ progress_run.runs[i].pc = "queued"
    /\ progress_run' = [progress_run EXCEPT !.runs[i].pc = "returned"]
    /\ UNCHANGED <<manager_vars, task_vars, batch_vars, strategy_run, search_run>>

\* DownloadTask.finished: on_complete is called when there is a result
TaskFinished(i) ==
    /\ progress_run.pc = "tasks"
    /\ TaskEnded(progress_run.runs[i])
    /\ progress_run' =
         [progress_run EXCEPT
            !.runs[i].pc = "finished",
            !.log = IF Delivers(progress_run.runs[i].result)
                    THEN Append(@, Invoked("on_dataset_complete", i)) ELSE @]
    /\ UNCHANGED <<manager_vars, task_vars, batch_vars, strategy_run, search_run>>

CallbackInit ==
    /\ api_key = "0123abcd"
    /\ clip_geometry \in BOOLEAN
    /\ NoDownloads
    /\ strategy_run = NoRun
    /\ search_run = NoRun
    /\ progress_run = [pc |-> "tasks", runs |-> <<QueuedRun, QueuedRun>>, log |-> <<>>]

CallbackNext ==
    \/ \E i \in {1, 2} : RunEnters(i)
    \/ \E i \in {1, 2} : ProgressCallback(i)
    \/ \E i \in {1, 2}, outcome \in {"success", "failure", "none"} : RunReturns(i, outcome)
    \/ \E i \in {1, 2} : CancelledQueued(i)
    \/ \E i \in {1, 2} : TaskFinished(i)

CallbackSpec == CallbackInit /\ [][CallbackNext]_vars

(***************************************************************************)
(* Vocabulary of the properties.                                           *)
(***************************************************************************)
\* a batch was started and finished() has run for every task of it
BatchOver == datasets # <<>> /\ \A t \in Tasks : finished_called[t]

\* the number of results on_dataset_complete received for task t
Deliveries(t) == Cardinality({i \in DOMAIN dataset_complete : dataset_complete[i] = t})

\* download has returned for task t after attempts that all failed
ChainFailed(t) ==
    /\ result[t] # NoResult
    /\ attempts[t] # <<>>
    /\ \A i \in DOMAIN attempts[t] : ~attempts[t][i].success

\* the reasons the export attempts fail with
ExportReasons == {x.error_message : x \in {y \in Range(ExportResultOf) : ~y.success}}

\* those of them that speak of coverage: "outside" or "coverage", in any case
CoverageReasons ==
    {m \in ExportReasons : Contains("outside", Lower(m)) \/ Contains("coverage", Lower(m))}

(***************************************************************************)
(* Properties.                                                             *)
(***************************************************************************)
\* C1: once finished() has run for every task of a batch, each requested
\* dataset has had exactly one DownloadResult delivered to the per-dataset
\* completion handler.  Violated: a task cancelled while queued, or whose
\* run raised in _geometry_to_bbox, has result None and finished() delivers
\* nothing for it.
C1_OneResultPerDataset ==
    BatchOver => \A t \in Tasks : Deliveries(t) = 1

\* C2: on_all_complete is invoked at most once per batch; when it has been
\* invoked, every one of the N datasets has had its completion delivered,
\* exactly once, and the list it received holds exactly those N results.
C2_AllCompleteOnceAfterAll ==
    /\ Len(all_complete) <= 1
    /\ all_complete # <<>> =>
          /\ Len(dataset_complete) = Len(datasets)
          /\ Range(dataset_complete) = Tasks
          /\ Len(all_complete[1]) = Len(datasets)
          /\ all_complete[1] = [i \in 1..Len(datasets) |-> result[dataset_complete[i]]]

\* C2 witness: a batch of two datasets for which on_all_complete was invoked
C2_Witness ==
    /\ Len(datasets) = 2
    /\ Len(all_complete) = 1
    /\ \E i \in 1..2 : all_complete[1][i].success
    /\ \E i \in 1..2 : ~all_complete[1][i].success

\* C3: once finished() has run for every task of a batch (nothing of the
\* batch remains to be scheduled), on_all_complete has been invoked with a
\* tally whose successes and failures add up to N.  Violated: with a task
\* cancelled before it ran the count of completions never reaches N.
C3_BatchAlwaysTallied ==
    BatchOver =>
        /\ Len(tally) = 1
        /\ tally[1][1] + tally[1][2] = Len(datasets)

\* C4: a task on a dataset flagged portal_only never calls a transfer
\* strategy, and the result of its download is a failure with the coverage
\* message.
C4_PortalOnlyFailsWithoutStrategy ==
    \A t \in Tasks :
        datasets[t].portal_only =>
            /\ attempts[t] = <<>>
            /\ pc[t] = ""
            /\ status[t] # "Running"
            /\ result[t] # NoResult =>
                  /\ ~result[t].success
                  /\ result[t].error_message = CoverageMessage

\* C4 witness: the download of a portal-only dataset has returned and its
\* result was delivered, with a key set
C4_Witness ==
    /\ api_key # ""
    /\ \E t \in Tasks :
          /\ datasets[t].portal_only
          /\ result[t] # NoResult
          /\ Deliveries(t) = 1

\* C5: for a raster dataset whose WCS attempt failed on an answer that is
\* neither an authentication nor a coverage failure and whose export attempt
\* then got a job that was created, completed, fetched and unpacked, the
\* result is a success without error message.  Violated: the export attempt
\* builds its result with a keyword DownloadResult does not have.
C5_ExportAfterWcsFailureSucceeds ==
    \A t \in Tasks :
        ( /\ Len(attempts[t]) = 2
          /\ attempts[t][1].answer \in {"not_found", "error"}
          /\ ~attempts[t][1].success
          /\ attempts[t][2].answer = "ok"
          /\ result[t] # NoResult )
        => /\ result[t].success
           /\ result[t].error_message = None

\* C6: when the example batch is over, A and B succeeded, C failed with the
\* coverage message, and on_all_complete logged 2 succeeded and 1 failed.
\* Violated: B's export attempt fails as in C5.
C6_ExampleOutcome ==
    (datasets = ExampleBatch /\ BatchOver) =>
        /\ result[1].success
        /\ result[2].success
        /\ ~result[3].success
        /\ result[3].error_message = CoverageMessage
        /\ tally = << <<2, 1>> >>

\* C7: the strategy calls of one run, in call order: for a raster dataset
\* WCS first and the export second, for a vector dataset the vector export
\* alone; a call is followed by another only if it returned a failure, no
\* strategy is called twice, and a task is inside at most the next call.
C7_StrategiesInOrder ==
    \A t \in Tasks :
        LET a == attempts[t]
            order == IF datasets[t].data_type = RASTER
                     THEN <<"wcs", "export">> ELSE <<"vector_export">>
        IN  /\ Len(a) <= Len(order)
            /\ \A i \in DOMAIN a : a[i].strategy = order[i]
            /\ \A i \in DOMAIN a : i < Len(a) => ~a[i].success
            /\ pc[t] \in {"wcs", "export", "vector_export"} =>
                  /\ Len(a) < Len(order)
                  /\ pc[t] = order[Len(a) + 1]
                  /\ \A i \in DOMAIN a : ~a[i].success

\* C7 witness: a raster run that called both strategies, and a vector run
C7_Witness ==
    /\ \E t \in Tasks :
          /\ datasets[t].data_type = RASTER
          /\ Len(attempts[t]) = 2
          /\ result[t] # NoResult
    /\ \E t \in Tasks :
          /\ datasets[t].data_type = VECTOR
          /\ Len(attempts[t]) = 1

\* C8, as stated: the error message of a run whose strategies all failed
\* contains the reason of each of them.
C8_EachReasonListed ==
    \A t \in Tasks :
        ChainFailed(t) =>
            /\ ~result[t].success
            /\ \A i \in DOMAIN attempts[t] :
                  Contains(attempts[t][i].error_message, result[t].error_message)

\* C8, amended: a run whose strategies all failed ends in a failure.  For a
\* vector dataset its message is "Export API failed: " and the export's
\* reason.  For a raster dataset it is "WCS: <reason> | Export: <reason>",
\* except when the export's reason speaks of coverage ("outside" or
\* "coverage", in any case): then it is the export's reason alone.
C8_ReasonsListedUnlessCoverage ==
    \A t \in Tasks :
        ChainFailed(t) =>
            LET a == attempts[t]
            IN  /\ ~result[t].success
                /\ IF datasets[t].data_type = RASTER
                   THEN /\ Len(a) = 2
                        /\ result[t].error_message =
                              IF a[2].error_message \in CoverageReasons
                              THEN a[2].error_message
                              ELSE "WCS: " \o a[1].error_message
                                       \o " | Export: " \o a[2].error_message
                   ELSE /\ Len(a) = 1
                        /\ result[t].error_message =
                              "Export API failed: " \o a[1].error_message

\* C8 witness: a raster run whose two strategies failed, the export for a
\* reason that does not speak of coverage
C8_Witness ==
    \E t \in Tasks :
        /\ ChainFailed(t)
        /\ Len(attempts[t]) = 2
        /\ attempts[t][2].answer = "validation"
        /\ attempts[t][2].error_message \notin CoverageReasons

\* C9: when the submission of the export job was rejected with structured
\* validation reasons, the error message of the result is the validation
\* message itself.  Violated: _download_vector prefixes it, and
\* _download_raster embeds it unless it speaks of coverage.
C9_ValidationMessageVerbatim ==
    \A t \in Tasks :
        ( /\ result[t] # NoResult
          /\ attempts[t] # <<>>
          /\ attempts[t][Len(attempts[t])].answer = "validation" )
        => result[t].error_message = attempts[t][Len(attempts[t])].error_message

\* C10: no strategy is called after an authentication failure: without a
\* key none is called, and a call answered 401 or 403 is the last of its run.
\* Violated: _download_raster goes on to the export after a WCS 401.
C10_AuthFailureEndsChain ==
    \A t \in Tasks :
        /\ api_key = "" => attempts[t] = <<>>
        /\ \A i \in DOMAIN attempts[t] :
              attempts[t][i].answer = "auth" => i = Len(attempts[t])

\* a strategy's return value reports the cancellation
CancelledOutcome(r) ==
    /\ r # NoResult
    /\ ~r.success
    /\ Contains("Download cancelled", r.error_message)

\* C11: when the progress callback has returned False at an invocation
\* point of a strategy, the strategy has returned at that point, without a
\* further request or file operation, and its result reports the
\* cancellation.  Violated: the value returned at the 60% report after the
\* polling loop (and at the 100% report) is not looked at, and the strategy
\* goes on to fetch the archive.
C11_CancelSignalStopsStrategy ==
    (strategy_run # NoRun /\ strategy_run.returned = "False") =>
        /\ strategy_run.pc = "done"
        /\ CancelledOutcome(strategy_run.result)

\* C12: a strategy that a task calls, or is in, after cancel_all has
\* requested the task's cancellation returns a cancelled outcome.  Violated:
\* the callback run() hands to the strategies never reads the task's
\* cancellation flag and returns None, so the strategy runs to its end.
C12_CancelReachesStrategy ==
    [][\A t \in Tasks :
          (cancel_requested[t] /\ Len(attempts'[t]) > Len(attempts[t])) =>
              CancelledOutcome(attempts'[t][Len(attempts'[t])])]_vars

\* C13: a task that had not started running when cancel_all requested its
\* cancellation is terminated by the request and stays so: it never runs,
\* never is in a strategy and never calls one.
C13_CancelledQueuedNeverRuns ==
    [][\A t \in Tasks :
          /\ (status[t] = "Queued" /\ cancel_requested'[t]) =>
                 status'[t] = "Terminated"
          /\ (cancel_requested[t] /\ status[t] = "Terminated" /\ attempts[t] = <<>>) =>
                 /\ status'[t] = "Terminated"
                 /\ pc'[t] = ""
                 /\ attempts'[t] = <<>>]_vars

\* C13 witness: of a batch of two, one task was cancelled before it ran and
\* has been finished without a strategy call; the other had started
C13_Witness ==
    /\ Len(datasets) = 2
    /\ \E t \in Tasks :
          /\ cancel_requested[t]
          /\ status[t] = "Terminated"
          /\ attempts[t] = <<>>
          /\ result[t] = NoResult
          /\ finished_called[t]
    /\ \E t \in Tasks : cancel_requested[t] /\ attempts[t] # <<>>

\* C14: a cancel_all called after another cancel_all, with no download
\* started through the manager in between, calls cancel() on no task and
\* leaves the manager, its tasks and the batch as they are.
C14_SecondCancelAllIsNoOp ==
    [][(last_call.op = "cancel_all" /\ CancelAll) =>
          /\ last_call'.cancelled = <<>>
          /\ UNCHANGED <<api_key, clip_geometry, datasets, active_tasks, batch,
                         task_vars, batch_vars>>]_vars

\* C14 witness: cancel_all was called twice in a row while a task it had
\* cancelled the first time was still running
C14_Witness ==
    /\ last_call = [op |-> "cancel_all", cancelled |-> <<>>, nth |-> 2]
    /\ \E t \in Tasks : cancel_requested[t] /\ status[t] = "Running"

\* C15: after a cancel_all, and until the next download is started, every
\* task started through the manager that has not ended has had its
\* cancellation requested, whatever calls were made on the manager before.
C15_CancelAllReachesEveryTask ==
    last_call.op = "cancel_all" =>
        \A t \in Tasks :
            status[t] \in {"Queued", "Running"} => cancel_requested[t]

\* C15 witness: download, cancel_all, download_multiple, cancel_all: the
\* first task, cancelled by the earlier call, and the second, cancelled by
\* the latest, are both still running
C15_Witness ==
    /\ last_call = [op |-> "cancel_all", cancelled |-> <<2>>, nth |-> 1]
    /\ batch = <<2>>
    /\ \A t \in {1, 2} : cancel_requested[t] /\ status[t] = "Running"

\* the path a strategy returns as output_path when it succeeds
FinalPath(run) ==
    LET call   == run.call
        member == IF call.env.archive.is_zip
                  THEN FirstMember(call.env.archive.members,
                           IF call.kind = "export" THEN RasterExtensions
                           ELSE VectorExtensions)
                  ELSE ""
    IN  IF call.kind = "wcs" THEN TifPath(call)
        ELSE IF member # "" THEN PathJoin(OutputDir, member)
        ELSE ZipPath(call)

\* C16: when a strategy has returned a cancelled outcome, no file written
\* only in part exists under the path the strategy returns on success.
\* Violated: _try_wcs_download streams into the final path itself and
\* leaves the part written there when the callback cancels.
C16_NoPartialFinalFile ==
    ( /\ strategy_run # NoRun
      /\ strategy_run.pc = "done"
      /\ CancelledOutcome(strategy_run.result) )
    => ~ ( /\ FinalPath(strategy_run) \in DOMAIN strategy_run.files
           /\ strategy_run.files[FinalPath(strategy_run)] = "partial" )

\* C17: every call of an export strategy leaves its polling loop after
\* finitely many iterations, with a timeout failure when the job reaches
\* no terminal state.  Violated: the loop is "while True" with no bound on
\* attempt, and goes round for ever while the job is neither complete with
\* a download_url nor failed.
C17_PollingEnds == <>(strategy_run.pc \notin {"start", "poll", "sleep"})

\* the layers of a call whose own probe returns their id
Confirming(call, key) ==
    {call.layers[i].id : i \in
        {j \in DOMAIN call.layers :
            Truthy(check_single_layer_coverage(call.layers[j].id, call.answers[j], key))}}

\* _validate_coverage was called and has returned
Validated == search_run.pc \in {"build", "done"} /\ search_run.call.geometry

\* C18: for fixed layer ids and fixed answers of the exports endpoint to
\* each layer's probe, the set _validate_coverage returns is the set of the
\* layers whose own probe confirms, whatever the order the probes finish
\* and are collected in; while it is built and when it is returned it
\* holds ids of the input only.
C18_ValidateCoverageDeterministic ==
    /\ (search_run.pc = "probing" \/ Validated) =>
            search_run.valid_ids \subseteq LayerIds(search_run.call)
    /\ Validated => search_run.valid_ids = Confirming(search_run.call, api_key)

\* two probes finished in the reverse of the order they were submitted in,
\* both confirmed, and _validate_coverage has returned both ids
C18_Witness ==
    /\ Validated
    /\ search_run.collected = <<2, 1>>
    /\ search_run.valid_ids = {"51768", "50772"}

\* the probe of layer i of the call fails: it does not return the layer id
ProbeFails(call, i) == ProbeBody(call.layers[i].id, call.answers[i]) # Returned(call.layers[i].id)

\* C19: a probe that times out, meets a transport error, raises or gets a
\* response that does not confirm never makes _validate_coverage raise;
\* each collected layer is in valid_ids exactly when its own probe
\* confirmed, whatever the probes of the other layers did; and
\* _validate_coverage returns in the end.
C19_ProbeFailureStaysLocal ==
    /\ [](/\ search_run.pc # "raised"
          /\ \A k \in DOMAIN search_run.collected :
                LET i == search_run.collected[k]
                IN  search_run.call.layers[i].id \in search_run.valid_ids
                        <=> ~ProbeFails(search_run.call, i))
    /\ <>(search_run.pc \in {"build", "done"})

\* the probe of the first layer timed out and was collected first, the
\* probe of the second layer confirmed, and _validate_coverage has returned
\* the second layer alone
C19_Witness ==
    /\ Validated
    /\ Len(search_run.call.layers) = 2
    /\ search_run.call.answers[1].raises = "Timeout"
    /\ search_run.collected = <<1, 2>>
    /\ search_run.valid_ids = {"50772"}

\* a probe of this search returned the layer id of the dataset
CoverageConfirmed(dataset) == dataset.layer_id \in search_run.confirmed

\* A returned dataset is flagged as its coverage and show_all require, and
\* without confirmed coverage it carries the flag download fails on before
\* any strategy.
FlaggedRight(dataset) ==
    /\ ~search_run.call.show_all => (CoverageConfirmed(dataset) /\ ~dataset.portal_only)
    /\ search_run.call.show_all => (dataset.portal_only <=> ~CoverageConfirmed(dataset))
    /\ ~CoverageConfirmed(dataset) =>
            /\ dataset.portal_only
            /\ download_precheck(dataset, OutputDir, api_key)
                    = Failed(dataset, OutputDir, CoverageMessage)

\* C20 as stated: every dataset search returns with show_all = false has
\* confirmed coverage and portal_only = false; with show_all = true a
\* dataset has portal_only = true exactly when its coverage was not
\* confirmed; so a dataset without confirmed coverage reaches download only
\* flagged portal_only, where it is failed with the coverage message.
\* Violated by a search without a geometry: no probe is made, every listed
\* layer counts as valid and is returned with portal_only = false.
C20_ReturnedDatasetsFlagged ==
    search_run.pc = "done" =>
        \A k \in DOMAIN search_run.found : FlaggedRight(search_run.found[k])

\* C20, amended: the statement holds of every search that is given a
\* geometry.
C20_ReturnedDatasetsFlaggedGivenGeometry ==
    (search_run.pc = "done" /\ search_run.call.geometry) =>
        \A k \in DOMAIN search_run.found : FlaggedRight(search_run.found[k])

\* a search with a geometry in show-all mode has returned one dataset whose
\* coverage a probe confirmed and one it flagged portal_only
C20_Witness ==
    /\ search_run.pc = "done"
    /\ search_run.call.geometry
    /\ search_run.call.show_all
    /\ search_run.confirmed = {"51768"}
    /\ search_run.found =
          << Dataset("51768", "NZ 8m DEM (2012)", RASTER, FALSE),
             Dataset("50772", "[No Coverage] NZ Primary Parcels", VECTOR, TRUE) >>

\* the stream of the download has delivered the content-length it announced
StreamReachedTotal ==
    /\ progress_run.pc = "done"
    /\ progress_run.call.total_size > 0
    /\ progress_run.downloaded = progress_run.call.total_size

\* C21: when a download's byte stream has grown to the total the response
\* announced, the last sample the widget shows for the file has percent =
\* 100, whichever strategy streamed it.  Violated by the vector export: its
\* closing progress_callback(100, 0, 0) hands bytes 0 to update_progress,
\* which keeps the known total, and the sample shown last is 0 percent.
C21_LastSampleShowsHundred ==
    (StreamReachedTotal /\ progress_run.pending = NoSample /\ progress_run.shown # NoSample)
        => progress_run.shown.percent = 100

\* C22: a sample the widget shows carries an ETA exactly when its rate is
\* above 0 and its total is known, and the elapsed time in every other
\* case; in particular no ETA is shown with rate 0 and the total unknown.
C22_EtaOnlyWithRateAndTotal ==
    progress_run.shown # NoSample =>
        LET sample == progress_run.shown
        IN  /\ sample.eta.label \in {"ETA", "Elapsed"}
            /\ sample.eta.label = "ETA" <=> (sample.speed.num > 0 /\ sample.total > 0)
            /\ (sample.speed.num = 0 /\ sample.total = 0) => sample.eta.label = "Elapsed"

\* half of a stream of known length arrived within half a second and the
\* widget shows the ETA of the other half
C22_Witness ==
    /\ progress_run.shown # NoSample
    /\ progress_run.shown.eta = [label |-> "ETA", seconds |-> 1]
    /\ progress_run.shown.bytes = 100
    /\ progress_run.shown.speed = [num |-> 100, den |-> 1]

\* post-processing of the call fails: the archive cannot be read as a zip,
\* or the reprojected raster could not be renamed over the extracted one
PostProcessingFails(call) ==
    \/ ~call.env.archive.is_zip
    \/ /\ call.kind = "export"
       /\ call.env.reproject = "lost"
       /\ FirstMember(call.env.archive.members, RasterExtensions) # ""

\* C23: when the archive was transferred in full and its extraction or the
\* reprojection fails, the strategy returns a success with a warning
\* message.  Violated: _try_vector_export_download returns a failure when
\* the extraction raises, and _try_export_download passes the failure by
\* but then fails on DownloadResult(already_clipped=True); no strategy sets
\* warning_message.
C23_PostProcessingFailureIsWarning ==
    [][(/\ strategy_run.pc = "extract"
        /\ PostProcessingFails(strategy_run.call)
        /\ strategy_run'.pc = "done")
            => /\ strategy_run'.result.success
               /\ strategy_run'.result.warning_message # None]_vars

C25_CancelledIsTerminal ==
    \A i \in DOMAIN strategy_run.before :
        ~ ( /\ strategy_run.before[i].returned = "False"
            /\ CancelledOutcome(strategy_run.before[i].result) )

\* the job states the export service reports for a job that has ended
TerminalStates == {"complete", "error", "cancelled", "failed"}

\* C26: a poll whose status request is answered with a terminal job state
\* ends the polling loop at once: on "complete" the strategy goes on to
\* fetch the result, on "error", "cancelled" and "failed" it returns a
\* failure.  Violated: on "complete" without a download_url the loop sleeps
\* and polls again.
C26_TerminalStateEndsPolling ==
    [][LET info == PollAnswerAt(strategy_run'.call.env.polls, strategy_run'.attempt)
       IN  ( /\ strategy_run.pc = "poll"
             /\ ~SignalsCancel(strategy_run.call.cb, "poll")
             /\ info.status < 400
             /\ info.state \in TerminalStates )
           => IF info.state = "complete"
              THEN strategy_run'.pc = "after_poll"
              ELSE /\ strategy_run'.pc = "done"
                   /\ ~strategy_run'.result.success]_vars

\* the download is one of the export strategies and has reported a percent
ExportReported ==
    progress_run.call.kind \in {"export", "vector_export"} /\ progress_run.percent >= 0

\* C27: the percent an export strategy reports is at most 50 at every poll,
\* however many polls there are, 60 after the polling loop, and from 60 to
\* 100 while the archive streams; and no report is below the one before.
C27_PercentWithinPhaseAndRising ==
    /\ [](ExportReported =>
            /\ progress_run.phase = "poll" =>
                  (progress_run.percent >= 0 /\ progress_run.percent <= 500)
            /\ progress_run.phase = "fetch" => progress_run.percent = 600
            /\ progress_run.phase = "stream" =>
                  (progress_run.percent >= 600 /\ progress_run.percent <= 1000))
    /\ [][progress_run.call.kind \in {"export", "vector_export"}
            => progress_run'.percent >= progress_run.percent]_vars

\* the 101st poll of an export job has reported 50 percent
C27_Witness ==
    /\ progress_run.call.kind = "export"
    /\ progress_run.phase = "poll"
    /\ progress_run.attempt = 101
    /\ progress_run.percent = 500

\* C28: once the progress callback has returned False to a strategy, the
\* strategy takes no further iteration of its polling loop (no status
\* request) and writes no further chunk.  Violated: the value the callback
\* returns at the 60% report is dropped, and the strategy goes on to stream
\* the archive to disk.
C28_NoRequestOrChunkAfterCancel ==
    [][(strategy_run # NoRun /\ strategy_run.returned = "False")
            => ~ ( /\ strategy_run.pc \in {"poll", "stream"}
                   /\ strategy_run' # strategy_run )]_vars

\* the reprojected raster was written and no iteration of the rename loop
\* has put it in the place of the extracted one
EveryRenameFailed ==
    /\ strategy_run.attempt = RenameAttempts
    /\ strategy_run.reprojected \in DOMAIN strategy_run.files

\* C29: the loop that replaces the extracted raster by the reprojected one
\* makes at most 3 attempts, and when all of them have failed
\* _try_export_download returns a success with a warning message.
\* Violated: the return builds DownloadResult(already_clipped=True), which
\* raises TypeError, so the strategy returns a failure; and no warning is
\* ever set.
C29_RenameRetriedThenWarning ==
    /\ strategy_run.attempt <= RenameAttempts
    /\ (strategy_run.pc = "done" /\ EveryRenameFailed) =>
            /\ strategy_run.result.success
            /\ strategy_run.result.warning_message # None

\* the member the extraction step of a strategy call picks: the first one,
\* in archive order, with an extension of the data kind; "" when the
\* archive has none or cannot be read
PickedMember(call) ==
    IF call.env.archive.is_zip
    THEN FirstMember(call.env.archive.members,
             IF call.kind = "export" THEN RasterExtensions ELSE VectorExtensions)
    ELSE ""

\* C30: when the extraction step of an export strategy has run, the
\* archive is no longer on disk, and when the archive holds a member of the
\* data kind the strategy returns a success whose output_path is the first
\* such member.  Violated: an archive that cannot be read stays on disk,
\* and the return after a good extraction fails on
\* DownloadResult(already_clipped=True), so output_path is the output
\* directory.
C30_ArchiveGoneAndFirstMemberReturned ==
    [][/\ (strategy_run.pc = "extract" /\ strategy_run'.pc # "extract")
              => ZipPath(strategy_run.call) \notin DOMAIN strategy_run'.files
       /\ (/\ strategy_run.pc \in {"extract", "final"}
           /\ strategy_run'.pc = "done"
           /\ PickedMember(strategy_run.call) # "")
              => /\ strategy_run'.result.success
                 /\ strategy_run'.result.output_path =
                        PathJoin(OutputDir, PickedMember(strategy_run.call))]_vars

Completions == {t \in Range(batch) : finished_called[t] /\ Delivers(result[t])}

\* C32: in whatever order the tasks of a batch complete, the counter equals
\* the number of completions and the number of results collected, the
\* results collected are those of the completed tasks in completion order,
\* and when the counter has reached the number of datasets on_all_complete
\* has been called with them.
C32_CounterMatchesCompletions ==
    /\ completed_count = Cardinality(Completions)
    /\ completed_count = Len(results)
    /\ Len(dataset_complete) = Len(results)
    /\ \A i \in DOMAIN results : results[i] = result[dataset_complete[i]]
    /\ (batch # <<>> /\ Cardinality(Completions) = Len(batch))
           => all_complete = <<results>>

\* the second task of a batch of two completed before the first, and the
\* completion of the first was detected as the last one
C32_Witness ==
    /\ Len(batch) = 2
    /\ dataset_complete = <<2, 1>>
    /\ completed_count = 2
    /\ all_complete = <<results>>

\* C33: the runs of two distinct datasets of a batch write no path in
\* common.  Violated: the paths are made of dataset.name alone (two
\* datasets with one name, or with names that differ only in the characters
\* safe_name drops, share the .tif and the .zip) and of the name of the
\* extracted member, which the remote chooses.
C33_OutputPathsDistinct ==
    strategy_run.runs[1].written \cap strategy_run.runs[2].written = {}

\* C34: reading size_display leaves size_bytes as search produced it, and
\* every read returns what the first read returned.  Violated: the loop of
\* size_display divides self.size_bytes itself, so a size of 1024 bytes or
\* more is scaled down by the read and the next read names a smaller unit.
C34_DatasetNeverMutated ==
    /\ search_run.size_bytes = search_run.produced
    /\ \A i \in DOMAIN search_run.reads : search_run.reads[i] = search_run.reads[1]

\* the export job of a strategy call ran without any failure and the
\* callback never asked to stop
RanClean(call) ==
    /\ call.kind \in {"export", "vector_export"}
    /\ ExportRanClean(call.env, IF call.kind = "export" THEN RasterExtensions
                                ELSE VectorExtensions)
    /\ \A point \in CallbackPoints : ~SignalsCancel(call.cb, point)

\* C35: an export strategy whose job ran without any failure returns a
\* success whose output_path is the extracted member, for the raster and
\* for the vector strategy.  Violated: both build
\* DownloadResult(already_clipped=True), which raises TypeError, and return
\* a failure.
C35_CleanExportSucceeds ==
    (strategy_run.pc = "done" /\ RanClean(strategy_run.call))
        => /\ strategy_run.result.success
           /\ strategy_run.result.output_path =
                  PathJoin(OutputDir, PickedMember(strategy_run.call))

\* C36: every result handle_complete has collected and handed to
\* on_dataset_complete has no error message when it is a success and a
\* non-empty one when it is a failure.  Violated: when the clip raises,
\* run() writes "Clip failed: ..." into the result and leaves success true.
C36_ErrorMessageIffFailure ==
    \A i \in DOMAIN results :
        /\ results[i].success => results[i].error_message = None
        /\ ~results[i].success => results[i].error_message \notin {None, ""}

\* C37: a strategy that returns a success returns as output_path a file
\* that is on disk when it returns, never the output directory.  (The
\* returns of the export strategies that would name the unlinked archive
\* raise TypeError before a result exists, so every success is one of the
\* WCS strategy, whose file was written in full.)
C37_SuccessNamesExistingFile ==
    (strategy_run.pc = "done" /\ strategy_run.result.success)
        => /\ strategy_run.result.output_path # OutputDir
           /\ strategy_run.result.output_path \in DOMAIN strategy_run.files
           /\ strategy_run.files[strategy_run.result.output_path] = "complete"

\* the WCS strategy has streamed the GeoTIFF and returned it
C37_Witness ==
    /\ strategy_run.pc = "done"
    /\ strategy_run.call.kind = "wcs"
    /\ strategy_run.result.success
    /\ strategy_run.result.output_path = TifPath(strategy_run.call)
    /\ TifPath(strategy_run.call) \in DOMAIN strategy_run.files

\* the places of the log at which cb was invoked for task i
InvokedAt(cb, i) ==
    {n \in DOMAIN progress_run.log : progress_run.log[n] = Invoked(cb, i)}

\* C38: for each task, on_file_start is invoked at most once and exactly
\* once when the task has run; every on_progress of the task comes after
\* it; and on_dataset_complete comes after every on_file_start and
\* on_progress of the task.
C38_CallbacksInOrder ==
    \A i \in {1, 2} :
        /\ Cardinality(InvokedAt("on_file_start", i)) <= 1
        /\ progress_run.runs[i].pc = "download"
               => Cardinality(InvokedAt("on_file_start", i)) = 1
        /\ \A p \in InvokedAt("on_progress", i) :
               \E s \in InvokedAt("on_file_start", i) : s < p
        /\ \A c \in InvokedAt("on_dataset_complete", i) :
               /\ InvokedAt("on_file_start", i) # {}
               /\ \A n \in InvokedAt("on_file_start", i)
                             \cup InvokedAt("on_progress", i) : n < c

\* the first task has reported twice and was delivered while the second
\* task is still reporting
C38_Witness ==
    /\ Cardinality(InvokedAt("on_progress", 1)) = 2
    /\ InvokedAt("on_dataset_complete", 1) # {}
    /\ InvokedAt("on_progress", 2) # {}
    /\ progress_run.runs[2].pc = "download"

\* C39: the clip step is entered only after a successful download and with
\* a clip geometry; it leaves success true; when Clipper.clip returns,
\* clipped is true and output_path is the clipped path; when it raises
\* (run() then notes "Clip failed: ..."), clipped stays false and
\* output_path stays the downloaded file; and a result is clipped only when
\* it went through the step, so never when the download failed or there is
\* no clip geometry.
C39_ClipStepOutcome ==
    /\ [](\A t \in Tasks :
            /\ pc[t] = "clip"
                  => clip_geometry /\ result[t].success /\ ~result[t].clipped
            /\ (result[t] # NoResult /\ result[t].clipped)
                  => clip_geometry /\ result[t].success /\ pc[t] # "clip")
    /\ [][\A t \in Tasks :
            (pc[t] = "clip" /\ pc'[t] # "clip")
               => /\ result'[t].success
                  /\ \/ /\ result'[t].clipped
                        /\ result'[t].output_path = ClippedPath(result[t].output_path)
                        /\ result'[t].error_message = result[t].error_message
                     \/ /\ ~result'[t].clipped
                        /\ result'[t].output_path = result[t].output_path
                        /\ result'[t].error_message # result[t].error_message]_vars

\* the download of a task succeeded, Clipper.clip returned and the task
\* holds the clipped file
C39_Witness ==
    \E t \in Tasks :
        /\ status[t] = "Complete"
        /\ result[t].success
        /\ result[t].clipped
        /\ result[t].output_path =
               ClippedPath(TifPath([safe_name |-> SafeName(datasets[t].name)]))

====
